---- MODULE Spec2Model ----
(***************************************************************************)
(* The concurrency-control core of the DuckDB sidecar:                     *)
(*   - the admission queue of src/src/lib/query_queue.ts                   *)
(*     (runWithQueryQueue / pumpQueue), and                                *)
(*   - the instance pool of src/src/lib/pool.ts (DuckDBPool).              *)
(*                                                                         *)
(* JavaScript runs every synchronous segment to completion, so each action *)
(* below is one synchronous segment: the body of a call up to its first    *)
(* await, or one promise reaction.  Promise reactions that the queue       *)
(* registers itself are kept in the FIFO `microtasks`, in the order the    *)
(* engine's job queue runs them.                                           *)
(***************************************************************************)
EXTENDS Integers, Sequences, FiniteSets, TLC

(* ----------------------------- bounds --------------------------------- *)
\* number of runWithQueryQueue calls in a behaviour
MaxSubs == 4
\* largest SIDECAR_MAX_CONCURRENT_QUERIES / SIDECAR_MAX_QUERY_QUEUE tried
MaxConcurrentCfg == 2
MaxQueueCfg == 2
\* number of runWithQueryQueue calls in a behaviour with the queue's clock
MaxTimedSubs == 3
\* number of runWithQueryQueue calls in a behaviour checked for progress
MaxLiveSubs == 2
\* number of /query requests in a behaviour
MaxRequests == 2
\* Date.now() ranges over 0..MaxTime
MaxTime == 2
\* largest pool sizes and recycle age tried
MaxMinSize == 2
MaxMaxSize == 2
MaxTTL == 1
\* number of createDuckDB calls in a behaviour
MaxFactoryCalls == 2
\* SIDECAR_MAX_CONCURRENT_SNAPSHOTS and SIDECAR_MAX_SNAPSHOT_QUEUE range over
\* 1..MaxSnapshotCfg
MaxSnapshotCfg == 2
\* the text of an environment variable has at most MaxEnvLen characters
MaxEnvLen == 2
\* number of runWithQueryQueue calls in a behaviour with the limits read from
\* the environment
MaxEnvSubs == 2

Subs == 1 .. MaxSubs

VARIABLES
    \* ---- query_queue.ts ----
    MAX_CONCURRENT,   \* query_queue.ts:24
    MAX_QUEUE,        \* query_queue.ts:25
    running,          \* query_queue.ts:27
    queue,            \* query_queue.ts:28, a sequence of QueueItem
    microtasks,       \* pending promise reactions of the queue's chains
    sub,              \* per call of runWithQueryQueue: its task and promise
    submitted,        \* number of runWithQueryQueue calls made so far
    enqLog,           \* history: calls in the order they were pushed
    dispLog,          \* history: queued calls in the order pumpQueue ran them
    lastSubmit,       \* history: what the last runWithQueryQueue call saw
    \* ---- pool.ts, class DuckDBPool ----
    minSize,          \* pool.ts:21
    maxSize,          \* pool.ts:22
    recycleTTLMs,     \* pool.ts:23
    idle,             \* pool.ts:18, a sequence of PooledInstance
    activeCount,      \* pool.ts:19
    creationTimes,    \* pool.ts:20, Database -> createdAt (Absent: no entry)
    totalCreated,     \* pool.ts:25
    totalRecycled,    \* pool.ts:26
    closed,           \* pool.ts:27
    \* ---- the pool's surroundings ----
    factoryCalls,     \* createDuckDB calls made so far
    dbCount,          \* Database objects the factory has returned: 1..dbCount
    creating,         \* acquire calls suspended at pool.ts:80
    warmup,           \* the warmup call: its state, its creations in flight,
                      \* the outcomes of those that settled (history) and
                      \* the creation whose error it rejected with
    lent,             \* handles returned by acquire and not yet released
    destroyed,        \* Database objects on which close() was called
    born,             \* history: Database -> time the factory returned it
    last,             \* history: the last pool operation and its outcome
    \* handlers/query.ts (part_005)
    usePool,          \* getPool() !== null
    req,              \* the unit of work of each /query request
    dbState,          \* each Database object: its S3 settings and its views
    \* POST /snapshot (server.ts)
    MAX_CONCURRENT_SNAPSHOTS,   \* SIDECAR_MAX_CONCURRENT_SNAPSHOTS
    MAX_SNAPSHOT_QUEUE,         \* SIDECAR_MAX_SNAPSHOT_QUEUE
    snapshot,         \* each /snapshot request: where its handler is
    env,              \* process.env: the raw text of the variables read
    now               \* Date.now()

queueVars == << MAX_CONCURRENT, MAX_QUEUE, running, queue, microtasks, sub,
                submitted, enqLog, dispLog, lastSubmit >>

poolVars == << minSize, maxSize, recycleTTLMs, idle, activeCount, creationTimes,
               totalCreated, totalRecycled, closed, factoryCalls, dbCount,
               creating, warmup, lent, destroyed, born, last >>

snapshotVars == << MAX_CONCURRENT_SNAPSHOTS, MAX_SNAPSHOT_QUEUE, snapshot >>

handlerVars == << usePool, req, dbState, snapshotVars, env >>

vars == << queueVars, poolVars, handlerVars, now >>

Max(a, b) == IF a >= b THEN a ELSE b

(* --------------------------- process.env ------------------------------ *)
\* The text of an environment variable is a sequence of characters; an unset
\* variable and an empty one are both falsy (`!raw`) and are the empty
\* sequence here.
Chars == {"0", "1", "2", "-", "x"}
Digits == {"0", "1", "2"}
RawValues == UNION {[1 .. n -> Chars] : n \in 0 .. MaxEnvLen}

DigitValue(c) == CASE c = "0" -> 0 [] c = "1" -> 1 [] c = "2" -> 2

\* the longest prefix of s made of digits
RECURSIVE DigitsPrefix(_)
DigitsPrefix(s) ==
    IF s # << >> /\ Head(s) \in Digits
    THEN << Head(s) >> \o DigitsPrefix(Tail(s))
    ELSE << >>

\* the number a sequence of digits writes in base 10
RECURSIVE DecimalValue(_)
DecimalValue(ds) ==
    IF ds = << >> THEN 0
    ELSE 10 * DecimalValue(SubSeq(ds, 1, Len(ds) - 1)) + DigitValue(ds[Len(ds)])

\* Number.parseInt(raw, 10): an optional sign, then the digits up to the
\* first character that is not one; NaN when there is no digit
NaN == [nan |-> TRUE, n |-> 0]
ParseInt(raw) ==
    LET neg  == raw # << >> /\ Head(raw) = "-"
        body == IF neg THEN Tail(raw) ELSE raw
        ds   == DigitsPrefix(body)
    IN IF ds = << >> THEN NaN
       ELSE [nan |-> FALSE,
             n |-> IF neg THEN 0 - DecimalValue(ds) ELSE DecimalValue(ds)]

\* query_queue.ts:16-22 and pool.ts:4-10
parsePositiveIntEnv(raw, fallback) ==
    IF raw = << >> THEN fallback
    ELSE LET parsed == ParseInt(raw)
         IN IF parsed.nan \/ parsed.n <= 0 THEN fallback ELSE parsed.n

\* no variable is set
EnvUnset == [DUCKDB_POOL_SIZE |-> << >>,
             DUCKDB_POOL_MAX |-> << >>,
             DUCKDB_POOL_RECYCLE_MS |-> << >>,
             SIDECAR_MAX_CONCURRENT_QUERIES |-> << >>,
             SIDECAR_MAX_QUERY_QUEUE |-> << >>,
             S3 |-> FALSE]     \* S3_ENDPOINT, S3_BUCKET and the two keys are set

(* ------------------------- values of the queue ------------------------ *)
NoError == [name |-> "none", of |-> 0]
\* query_queue.ts:30-38
SidecarQueueSaturatedError == [name |-> "SidecarQueueSaturatedError", of |-> 0]
\* the error task s rejects with (opaque to the queue)
TaskError(s) == [name |-> "TaskError", of |-> s]
\* the value task s fulfils with (opaque to the queue)
TaskValue(s) == s

\* the promise returned by runWithQueryQueue
NotCalled == [kind |-> "none", value |-> 0, queueWaitMs |-> 0,
              queueDepthOnEnqueue |-> 0, error |-> NoError]
Pending == [NotCalled EXCEPT !.kind = "pending"]
\* QueueRunResult, query_queue.ts:10-14
Fulfilled(v, w, d) == [kind |-> "ok", value |-> v, queueWaitMs |-> w,
                       queueDepthOnEnqueue |-> d, error |-> NoError]
Rejected(e) == [NotCalled EXCEPT !.kind = "err", !.error = e]

\* QueueItem, query_queue.ts:3-8; depth is the queueDepthOnEnqueue captured by
\* the resolve closure at query_queue.ts:86
QueueItem(s, t, d) == [task |-> s, enqueuedAtMs |-> t, depth |-> d]

InitSub == [path |-> "none",       \* none | immediate | queued | rejected
            task |-> "notInvoked", \* notInvoked | pending | fulfilled | rejected
            invoked |-> 0,         \* times task() was called
            released |-> 0,        \* times running -= 1 ran for it
            queueWaitMs |-> 0,     \* const queueWaitMs of pumpQueue
            depth |-> 0,           \* const queueDepthOnEnqueue
            waitersAhead |-> 0,    \* history: items in the queue before its push
            enqueuedAt |-> 0,      \* history: Date.now() at its push, while it waits
            elapsed |-> 0,         \* history: Date.now() at the call of task()
                                   \* minus Date.now() at its push
            inner |-> NotCalled,   \* the new Promise of query_queue.ts:85
            result |-> NotCalled,  \* the promise runWithQueryQueue returned
            observed |-> FALSE]    \* the caller's await has resumed

Job(k, s) == [job |-> k, s |-> s]

(* --------------------------- pumpQueue -------------------------------- *)
\* query_queue.ts:41, the loop condition
PumpGuardNever(r, q) == FALSE
PumpGuardOffByOne(r, q) == r <= MAX_CONCURRENT /\ Len(q) > 0
PumpGuard(r, q) == r < MAX_CONCURRENT /\ Len(q) > 0

\* query_queue.ts:42, queue.shift(): the item taken and the queue left
ShiftFromTail(q) == [item |-> q[Len(q)], rest |-> SubSeq(q, 1, Len(q) - 1)]
Shift(q) == [item |-> Head(q), rest |-> Tail(q)]

\* query_queue.ts:40-60: the synchronous part of pumpQueue, from a state
\* [running, queue, started]; started collects the items whose task() it called,
\* each with its queueWaitMs (query_queue.ts:43).
\* query_queue.ts:43
QueueWaitMsUnclamped(item) == now - item.enqueuedAtMs
QueueWaitMs(item) == Max(0, now - item.enqueuedAtMs)

RECURSIVE pumpQueue(_)
pumpQueue(st) ==
    IF PumpGuard(st.running, st.queue)
    THEN LET sh == Shift(st.queue)
             w  == QueueWaitMs(sh.item)
         IN pumpQueue([running |-> st.running + 1,
                       queue   |-> sh.rest,
                       started |-> Append(st.started,
                                          [item |-> sh.item, queueWaitMs |-> w])])
    ELSE st

StartedTasks(st) == { st.started[i].item.task : i \in 1 .. Len(st.started) }
WaitOf(st, s) ==
    st.started[CHOOSE i \in 1 .. Len(st.started) :
                   st.started[i].item.task = s].queueWaitMs
StartedSeq(st) == [i \in 1 .. Len(st.started) |-> st.started[i].item.task]

\* the effect of pumpQueue's task() calls on the calls' records
AfterPump(f, st) ==
    [s \in Subs |->
        IF s \in StartedTasks(st)
        THEN [f[s] EXCEPT !.task = "pending",
                          !.invoked = @ + 1,
                          !.queueWaitMs = WaitOf(st, s),
                          !.elapsed = now - f[s].enqueuedAt,
                          !.enqueuedAt = 0]
        ELSE f[s]]

(* ------------------------ runWithQueryQueue --------------------------- *)
\* query_queue.ts:63
HasFreeSlot(r) == r < MAX_CONCURRENT

\* query_queue.ts:79
IsSaturatedOffByOne(q) == Len(q) > MAX_QUEUE
IsSaturated(q) == Len(q) >= MAX_QUEUE

\* query_queue.ts:86, const queueDepthOnEnqueue = queue.length, read before the
\* push of line 87
DepthAfterPush(q) == Len(q) + 1
DepthOnEnqueue(q) == Len(q)

\* query_queue.ts:62-101, the synchronous part of one call: up to the await of
\* line 66, the throw of line 80, or the await of line 85.
Submit(s) ==
    /\ s = submitted + 1
    /\ s <= MaxSubs
    /\ submitted' = s
    /\ lastSubmit' = [s |-> s, running |-> running, queued |-> Len(queue)]
    /\ IF HasFreeSlot(running)
       THEN \* lines 63-66: running += 1; await task()
            /\ running' = running + 1
            /\ sub' = [sub EXCEPT ![s] = [@ EXCEPT !.path = "immediate",
                                                   !.task = "pending",
                                                   !.invoked = @ + 1,
                                                   !.result = Pending]]
            /\ UNCHANGED << queue, microtasks, enqLog, dispLog >>
       ELSE IF IsSaturated(queue)
       THEN \* lines 79-83: the async function's promise is rejected at once;
            \* the caller's await resumes in a microtask
            /\ sub' = [sub EXCEPT ![s] = [@ EXCEPT
                          !.path = "rejected",
                          !.result = Rejected(SidecarQueueSaturatedError)]]
            /\ microtasks' = Append(microtasks, Job("observe", s))
            /\ UNCHANGED << running, queue, enqLog, dispLog >>
       ELSE \* lines 85-100: push, then pumpQueue()
            LET d  == DepthOnEnqueue(queue)
                st == pumpQueue([running |-> running,
                                 queue |-> Append(queue, QueueItem(s, now, d)),
                                 started |-> << >>])
                f  == [sub EXCEPT ![s] = [@ EXCEPT !.path = "queued",
                                                   !.depth = d,
                                                   !.waitersAhead = Len(queue),
                                                   !.enqueuedAt = now,
                                                   !.inner = Pending,
                                                   !.result = Pending]]
            IN /\ running' = st.running
               /\ queue' = st.queue
               /\ sub' = AfterPump(f, st)
               /\ enqLog' = Append(enqLog, s)
               /\ dispLog' = dispLog \o StartedSeq(st)
               /\ UNCHANGED microtasks
    /\ UNCHANGED << MAX_CONCURRENT, MAX_QUEUE, now, poolVars >>

\* The task of call s settles (it is an async function: it fails by rejecting its
\* promise).  The first reaction registered on its promise is queued: the await
\* of line 66, or the .then of line 47.
TaskSettles(s, ok) ==
    /\ sub[s].task = "pending"
    /\ sub' = [sub EXCEPT ![s].task = IF ok THEN "fulfilled" ELSE "rejected"]
    /\ microtasks' = Append(microtasks,
                            Job(IF sub[s].path = "immediate" THEN "resume" ELSE "then", s))
    /\ UNCHANGED << MAX_CONCURRENT, MAX_QUEUE, running, queue, submitted,
                    enqLog, dispLog, lastSubmit, now, poolVars >>

\* running -= 1; pumpQueue()   (query_queue.ts:74-75 and 56-57)
ReleaseSlotTwice(r) == r - 2
ReleaseSlotNoDecrement(r) == r
ReleaseSlot(r) == r - 1

\* query_queue.ts:66-76: the await of line 66 resumes; the finally block runs
\* before the function's promise settles.
ImmediateResume ==
    /\ microtasks # << >>
    /\ Head(microtasks).job = "resume"
    /\ LET s  == Head(microtasks).s
           st == pumpQueue([running |-> ReleaseSlot(running), queue |-> queue,
                            started |-> << >>])
           r  == IF sub[s].task = "fulfilled"
                 THEN Fulfilled(TaskValue(s), 0, 0)
                 ELSE Rejected(TaskError(s))
           f  == [sub EXCEPT ![s] = [@ EXCEPT !.released = @ + 1, !.result = r]]
       IN /\ running' = st.running
          /\ queue' = st.queue
          /\ sub' = AfterPump(f, st)
          /\ dispLog' = dispLog \o StartedSeq(st)
          /\ microtasks' = Append(Tail(microtasks), Job("observe", s))
    /\ UNCHANGED << MAX_CONCURRENT, MAX_QUEUE, submitted, enqLog, lastSubmit, now,
                    poolVars >>

\* The error item.reject is called with (query_queue.ts:54)
CaughtErrorGeneric(s) == [name |-> "TaskError", of |-> 0]
CaughtError(s) == TaskError(s)

\* query_queue.ts:47-53: the reaction of .then.  On a fulfilled task it calls
\* item.resolve (lines 90-96), which fulfils the promise of line 85; on a
\* rejected task there is no handler and the rejection passes to .catch.
ThenCallback ==
    /\ microtasks # << >>
    /\ Head(microtasks).job = "then"
    /\ LET s == Head(microtasks).s
       IN IF sub[s].task = "fulfilled"
          THEN /\ sub' = [sub EXCEPT ![s].inner =
                             Fulfilled(TaskValue(s), sub[s].queueWaitMs, sub[s].depth)]
               /\ microtasks' = Tail(microtasks) \o
                                    << Job("awaited", s), Job("catch", s) >>
          ELSE /\ sub' = sub
               /\ microtasks' = Append(Tail(microtasks), Job("catch", s))
    /\ UNCHANGED << MAX_CONCURRENT, MAX_QUEUE, running, queue, submitted,
                    enqLog, dispLog, lastSubmit, now, poolVars >>

\* query_queue.ts:54: the reaction of .catch.  On a rejected task it calls
\* item.reject(error), which rejects the promise of line 85.
CatchCallback ==
    /\ microtasks # << >>
    /\ Head(microtasks).job = "catch"
    /\ LET s == Head(microtasks).s
       IN IF sub[s].task = "rejected"
          THEN /\ sub' = [sub EXCEPT ![s].inner = Rejected(CaughtError(s))]
               /\ microtasks' = Tail(microtasks) \o
                                    << Job("awaited", s), Job("finally", s) >>
          ELSE /\ sub' = sub
               /\ microtasks' = Append(Tail(microtasks), Job("finally", s))
    /\ UNCHANGED << MAX_CONCURRENT, MAX_QUEUE, running, queue, submitted,
                    enqLog, dispLog, lastSubmit, now, poolVars >>

\* query_queue.ts:55-58: the reaction of .finally.
FinallyCallback ==
    /\ microtasks # << >>
    /\ Head(microtasks).job = "finally"
    /\ LET s  == Head(microtasks).s
           st == pumpQueue([running |-> ReleaseSlot(running), queue |-> queue,
                            started |-> << >>])
           f  == [sub EXCEPT ![s].released = @ + 1]
       IN /\ running' = st.running
          /\ queue' = st.queue
          /\ sub' = AfterPump(f, st)
          /\ dispLog' = dispLog \o StartedSeq(st)
          /\ microtasks' = Tail(microtasks)
    /\ UNCHANGED << MAX_CONCURRENT, MAX_QUEUE, submitted, enqLog, lastSubmit, now,
                    poolVars >>

\* query_queue.ts:85: `return await new Promise(...)` resumes and the function's
\* own promise settles the same way.
QueuedResume ==
    /\ microtasks # << >>
    /\ Head(microtasks).job = "awaited"
    /\ LET s == Head(microtasks).s
       IN /\ sub' = [sub EXCEPT ![s].result = sub[s].inner]
          /\ microtasks' = Append(Tail(microtasks), Job("observe", s))
    /\ UNCHANGED << MAX_CONCURRENT, MAX_QUEUE, running, queue, submitted,
                    enqLog, dispLog, lastSubmit, now, poolVars >>

\* The caller's await of runWithQueryQueue resumes (part_005:59 and 135).
CallerObserves ==
    /\ microtasks # << >>
    /\ Head(microtasks).job = "observe"
    /\ LET s == Head(microtasks).s
       IN sub' = [sub EXCEPT ![s].observed = TRUE]
    /\ microtasks' = Tail(microtasks)
    /\ UNCHANGED << MAX_CONCURRENT, MAX_QUEUE, running, queue, submitted,
                    enqLog, dispLog, lastSubmit, now, poolVars >>

\* Date.now() as the queue reads it (query_queue.ts:43 and 88) changes between
\* two synchronous segments.  It is the wall clock: it mostly advances and an
\* adjustment can set it back, which is what the Math.max of line 43 is for.
\* The queue reads it only as a difference over the time an item is waiting,
\* so the clock is moved while an item is waiting.
QueueClock(t) ==
    /\ Len(queue) > 0
    /\ t \in 0 .. MaxTime
    /\ t = now + 1 \/ t = now - 1
    /\ now' = t
    /\ UNCHANGED << queueVars, poolVars, handlerVars >>

(* ======================= pool.ts: DuckDBPool ========================== *)
Dbs == 1 .. MaxFactoryCalls
NoDb == 0
Absent == -1

\* PooledInstance, pool.ts:12-15
PooledInstance(db, t) == [db |-> db, createdAt |-> t]

\* what a pool operation did: the history variable `last` holds the outcome of
\* the step just taken
\* the step just taken; evicted are the expired instances an acquire closed,
\* closeFailed says that a close() the step called rejects, and escaped that
\* this rejection reaches the caller or becomes an unhandled rejection.
Outcome(op, result, db) == [op |-> op, result |-> result, db |-> db,
                            evicted |-> {}, closeFailed |-> FALSE,
                            escaped |-> FALSE]

\* pool.ts:71, 98, 108 and 126: inst.db.close().catch(() => {})
CloseRejectionPropagates(failed) == failed
CloseRejectionEscapes(failed) == FALSE

\* the outcome o of an operation that called close() on the instances closing;
\* close() is asynchronous and no pool field is written after it settles
AfterClose(o, closing, failed) ==
    [o EXCEPT !.closeFailed = failed /\ closing # {},
              !.escaped = CloseRejectionEscapes(failed /\ closing # {})]
CloseOutcomes(closing) == IF closing = {} THEN {FALSE} ELSE BOOLEAN

\* pool.ts:60-62
IsExpiredAlways(inst) == TRUE
IsExpiredNever(inst) == FALSE
isExpired(inst) == now - inst.createdAt > recycleTTLMs

\* pool.ts:68, this.idle.pop(): the instance taken and the array left
PopOldest(q) == [inst |-> q[1], rest |-> Tail(q)]
PopKeepsInstance(q) == [inst |-> q[Len(q)], rest |-> q]
Pop(q) == [inst |-> q[Len(q)], rest |-> SubSeq(q, 1, Len(q) - 1)]

\* pool.ts:67-77: the loop over idle, from [idle, recycled, closing, found];
\* it stops at the first instance that is not expired (found), or with idle
\* empty (found = NoDb).
RECURSIVE acquireIdle(_)
acquireIdle(st) ==
    IF Len(st.idle) > 0
    THEN LET p == Pop(st.idle)
         IN IF isExpired(p.inst)
            THEN acquireIdle([idle |-> p.rest,
                              recycled |-> st.recycled + 1,
                              closing |-> st.closing \cup {p.inst.db},
                              found |-> st.found,
                              createdAt |-> st.createdAt])
            ELSE [st EXCEPT !.idle = p.rest,
                            !.found = p.inst.db,
                            !.createdAt = p.inst.createdAt]
    ELSE st

\* pool.ts:79
HasCapacityOffByOne(a) == a <= maxSize
HasCapacity(a) == a < maxSize

\* pool.ts:64-89, the synchronous part of acquire(): it returns an idle
\* instance, throws, or suspends in createInstance (pool.ts:80).
Acquire ==
    /\ UNCHANGED << queueVars, now >>
    /\ IF closed
       THEN \* line 65
            /\ last' = Outcome("acquire", "closed", NoDb)
            /\ UNCHANGED << minSize, maxSize, recycleTTLMs, idle, activeCount,
                            creationTimes, totalCreated, totalRecycled, closed,
                            factoryCalls, dbCount, creating, warmup, lent,
                            destroyed, born >>
       ELSE LET st == acquireIdle([idle |-> idle, recycled |-> 0, closing |-> {},
                                   found |-> NoDb, createdAt |-> 0])
                res(o) == \E failed \in CloseOutcomes(st.closing) :
                              last' = AfterClose([o EXCEPT !.evicted = st.closing],
                                                 st.closing, failed)
            IN /\ idle' = st.idle
               /\ totalRecycled' = totalRecycled + st.recycled
               /\ destroyed' = destroyed \cup st.closing
               /\ IF st.found # NoDb
                  THEN \* lines 74-76
                       /\ activeCount' = activeCount + 1
                       /\ creationTimes' = [creationTimes EXCEPT ![st.found] = st.createdAt]
                       /\ lent' = lent \cup {st.found}
                       /\ res(Outcome("acquire", "handle", st.found))
                       /\ UNCHANGED << factoryCalls, creating >>
                  ELSE IF HasCapacity(activeCount)
                  THEN \* line 80: createDuckDB is called, acquire suspends
                       /\ factoryCalls < MaxFactoryCalls
                       /\ factoryCalls' = factoryCalls + 1
                       /\ creating' = creating + 1
                       /\ res(Outcome("acquire", "creating", NoDb))
                       /\ UNCHANGED << activeCount, creationTimes, lent >>
                  ELSE \* lines 86-88
                       /\ res(Outcome("acquire", "exhausted", NoDb))
                       /\ UNCHANGED << activeCount, creationTimes, lent,
                                       factoryCalls, creating >>
               /\ UNCHANGED << minSize, maxSize, recycleTTLMs, totalCreated, closed,
                               dbCount, warmup, born >>

\* pool.ts:55-56 and 80-81: this.totalCreated++ and this.activeCount++ follow
\* an await; they run when createDuckDB fulfilled (ok) and are passed by when
\* it rejected.
ActiveAfterCreateAlways(a, ok) == a + 1
ActiveAfterCreate(a, ok) == IF ok THEN a + 1 ELSE a
CreatedAfterCreateNever(c, ok) == c
CreatedAfterCreate(c, ok) == IF ok THEN c + 1 ELSE c

\* pool.ts:54-58 and 80-83: createDuckDB fulfils for an acquire suspended at
\* line 80; createInstance counts and stamps the instance, acquire counts it
\* active and returns it.  (createInstance's return and acquire's resumption
\* are consecutive reactions; no pool operation reads totalCreated between
\* them.)
AcquireCreated ==
    /\ UNCHANGED << queueVars, now >>
    /\ creating > 0
    /\ LET db == dbCount + 1
       IN /\ dbCount' = db
          /\ totalCreated' = CreatedAfterCreate(totalCreated, TRUE)
          /\ born' = [born EXCEPT ![db] = now]
          /\ activeCount' = ActiveAfterCreate(activeCount, TRUE)
          /\ creationTimes' = [creationTimes EXCEPT ![db] = now]
          /\ lent' = lent \cup {db}
          /\ last' = Outcome("acquireResumed", "handle", db)
    /\ creating' = creating - 1
    /\ UNCHANGED << minSize, maxSize, recycleTTLMs, idle, totalRecycled, closed,
                    factoryCalls, warmup, destroyed >>

\* pool.ts:55 and 80: createDuckDB rejects; createInstance and acquire reject
\* with its error.
AcquireCreateFails ==
    /\ UNCHANGED << queueVars, now >>
    /\ creating > 0
    /\ creating' = creating - 1
    /\ activeCount' = ActiveAfterCreate(activeCount, FALSE)
    /\ totalCreated' = CreatedAfterCreate(totalCreated, FALSE)
    /\ last' = Outcome("acquireResumed", "factoryError", NoDb)
    /\ UNCHANGED << minSize, maxSize, recycleTTLMs, idle,
                    creationTimes, totalRecycled, closed,
                    factoryCalls, dbCount, warmup, lent, destroyed, born >>

\* pool.ts:96
DestroysOnReleaseOnlyUnhealthy(healthy) == ~healthy
DestroysOnReleaseOnlyWhenClosed(healthy) == closed
DestroysOnRelease(healthy) == closed \/ ~healthy

TrimNewest(st) ==
    LET n == Len(st.idle)
        k == Max(0, n - minSize)
    IN [idle |-> SubSeq(st.idle, 1, n - k),
        recycled |-> st.recycled + k,
        closing |-> st.closing \cup {st.idle[i].db : i \in n - k + 1 .. n}]

\* pool.ts:105-109: trim idle to minSize from the front, from
\* [idle, recycled, closing]
RECURSIVE trimIdle(_)
trimIdle(st) ==
    IF Len(st.idle) > minSize
    THEN trimIdle([idle |-> Tail(st.idle),
                   recycled |-> st.recycled + 1,
                   closing |-> st.closing \cup {Head(st.idle).db}])
    ELSE st

\* pool.ts:93, this.creationTimes.get(db) ?? Date.now()
ReleaseCreatedAtNow(db) == now
ReleaseCreatedAt(db) ==
    IF creationTimes[db] # Absent THEN creationTimes[db] ELSE now

\* pool.ts:91-110, release(db, healthy) as it is written: it tests nothing
\* about db.
release(db, healthy) ==
    /\ UNCHANGED << queueVars, now >>
    /\ lent' = lent \ {db}
    /\ activeCount' = activeCount - 1
    /\ creationTimes' = [creationTimes EXCEPT ![db] = Absent]
    /\ LET createdAt == ReleaseCreatedAt(db)
           o == Outcome("release", IF healthy THEN "healthy" ELSE "unhealthy", db)
       IN IF DestroysOnRelease(healthy)
          THEN \* lines 96-100
               /\ totalRecycled' = IF ~healthy THEN totalRecycled + 1 ELSE totalRecycled
               /\ destroyed' = destroyed \cup {db}
               /\ idle' = idle
               /\ \E failed \in CloseOutcomes({db}) :
                      last' = AfterClose(o, {db}, failed)
          ELSE \* lines 102-109
               LET st == trimIdle([idle |-> Append(idle, PooledInstance(db, createdAt)),
                                   recycled |-> 0, closing |-> {}])
               IN /\ idle' = st.idle
                  /\ totalRecycled' = totalRecycled + st.recycled
                  /\ destroyed' = destroyed \cup st.closing
                  /\ \E failed \in CloseOutcomes(st.closing) :
                         last' = AfterClose(o, st.closing, failed)
    /\ UNCHANGED << minSize, maxSize, recycleTTLMs, totalCreated, closed,
                    factoryCalls, dbCount, creating, warmup, born >>

\* pool.ts:112-122
getStats ==
    [idle |-> Len(idle),
     active |-> activeCount,
     total |-> Len(idle) + activeCount,
     minSize |-> minSize,
     maxSize |-> maxSize,
     totalCreated |-> totalCreated,
     totalRecycled |-> totalRecycled]

\* The callers of this repository release a handle they hold, once
\* (part_005:65 and 107).
Release(db, healthy) ==
    /\ db \in lent
    /\ release(db, healthy)

\* A caller that releases a Database object it does not hold: one it has
\* released already, or one the pool never lent.  The count of such calls is
\* kept small by making them while activeCount is not negative.
ReleaseNotHeld(db, healthy) ==
    /\ db \in 1 .. dbCount
    /\ db \notin lent
    /\ activeCount >= 0
    /\ release(db, healthy)

\* pool.ts:41-50, the synchronous part of warmup(): minSize createInstance
\* calls are started, then it awaits them all.  It is called once, on an open
\* pool (initPool, pool.ts:159-160; drainPool drops a drained pool, pool.ts:167).
Warmup ==
    /\ UNCHANGED << queueVars, now >>
    /\ warmup.state = "none"
    /\ ~closed
    /\ factoryCalls + minSize <= MaxFactoryCalls
    /\ factoryCalls' = factoryCalls + minSize
    /\ warmup' = [state |-> IF minSize = 0 THEN "done" ELSE "running",
                  inFlight |-> minSize,
                  outcomes |-> << >>,
                  error |-> 0]
    /\ last' = Outcome("warmup", "started", NoDb)
    /\ UNCHANGED << minSize, maxSize, recycleTTLMs, idle, activeCount,
                    creationTimes, totalCreated, totalRecycled, closed, dbCount,
                    creating, lent, destroyed, born >>

\* pool.ts:46, this.idle.push(inst)
WarmupPushNothing(inst) == idle
WarmupPush(inst) == Append(idle, inst)

\* pool.ts:54-58 and 45-47: one of warmup's createDuckDB calls fulfils and its
\* .then pushes the instance to idle; Promise.all fulfils with the last one.
WarmupCreated ==
    /\ UNCHANGED << queueVars, now >>
    /\ warmup.inFlight > 0
    /\ LET db == dbCount + 1
       IN /\ dbCount' = db
          /\ totalCreated' = totalCreated + 1
          /\ born' = [born EXCEPT ![db] = now]
          /\ idle' = WarmupPush(PooledInstance(db, now))
          /\ last' = Outcome("warmupCreated", "idle", db)
    /\ warmup' = [state |-> IF warmup.state = "running" /\ warmup.inFlight = 1
                            THEN "done" ELSE warmup.state,
                  inFlight |-> warmup.inFlight - 1,
                  outcomes |-> Append(warmup.outcomes, TRUE),
                  error |-> warmup.error]
    /\ UNCHANGED << minSize, maxSize, recycleTTLMs, activeCount, creationTimes,
                    totalRecycled, closed, factoryCalls, creating, lent,
                    destroyed >>

\* pool.ts:50, await Promise.all(promises): the error warmup rejects with
\* when its k-th creation to settle rejects; a promise settles once.
WarmupRejectionLast(w, k) == k
WarmupRejection(w, k) == IF w.state = "failed" THEN w.error ELSE k

\* pool.ts:55 and 50: one of warmup's createDuckDB calls rejects; Promise.all
\* rejects with the first such error and the other calls go on.
WarmupCreateFails ==
    /\ UNCHANGED << queueVars, now >>
    /\ warmup.inFlight > 0
    /\ warmup' = [state |-> "failed",
                  inFlight |-> warmup.inFlight - 1,
                  outcomes |-> Append(warmup.outcomes, FALSE),
                  error |-> WarmupRejection(warmup, Len(warmup.outcomes) + 1)]
    /\ last' = Outcome("warmupCreated", "factoryError", NoDb)
    /\ UNCHANGED << minSize, maxSize, recycleTTLMs, idle, activeCount,
                    creationTimes, totalCreated, totalRecycled, closed,
                    factoryCalls, dbCount, creating, lent, destroyed, born >>

\* pool.ts:126, the instances drain calls close() on
DrainClosingAll == { idle[i].db : i \in 1 .. Len(idle) } \cup lent
DrainClosing == { idle[i].db : i \in 1 .. Len(idle) }

\* pool.ts:124-130
Drain ==
    /\ UNCHANGED << queueVars, now >>
    /\ closed' = TRUE
    /\ destroyed' = destroyed \cup DrainClosing
    /\ idle' = << >>
    /\ \E failed \in CloseOutcomes(DrainClosing) :
           last' = AfterClose(Outcome("drain", "closed", NoDb), DrainClosing, failed)
    /\ UNCHANGED << minSize, maxSize, recycleTTLMs, activeCount, creationTimes,
                    totalCreated, totalRecycled, factoryCalls, dbCount,
                    creating, warmup, lent, born >>

\* Date.now() advances.  The code reads the clock only as now - createdAt, so
\* the clock is started when the first instance exists.
Tick ==
    /\ now < MaxTime
    /\ dbCount > 0
    /\ now' = now + 1
    /\ last' = Outcome("tick", "none", NoDb)
    /\ UNCHANGED << queueVars, minSize, maxSize, recycleTTLMs, idle, activeCount,
                    creationTimes, totalCreated, totalRecycled, closed,
                    factoryCalls, dbCount, creating, warmup, lent, destroyed,
                    born >>
    /\ UNCHANGED handlerVars

(* ================= handlers/query.ts: handleQuery ===================== *)
\* The S3 configuration of the environment (getS3ConfigFromEnv,
\* part_002:165-177), which initPool gives the pool (pool.ts:147 and 154).
EnvConfig == 0
\* s3_config of request s (part_005:38): request 1 is of the tenant whose
\* credentials the environment holds, the others are of other tenants
S3ConfigOf(s) == s - 1

\* the unit of work of request s, part_005:60-114
\* no response sent yet
NoStatus == 0

InitReq == [pc |-> "none",     \* none | creating | acquired | dropping |
                               \* closing | returning | done
            db |-> NoDb,       \* let db
            healthy |-> TRUE,  \* let healthy
            fulfils |-> TRUE,  \* the task returns (TRUE) or throws
            acquired |-> 0,    \* history: pool.acquire() calls that returned
            released |-> 0,    \* history: pool.release() calls
            ranWith |-> Absent,    \* history: the S3 settings of the instance
                                   \* its statements ran on
            status |-> NoStatus]   \* the HTTP status of its response
\* a Database object: the S3 settings createDuckDB made it with
\* (duckdb.ts:33-46) and the views of the requests still defined in it
InitInst == [cred |-> Absent, views |-> {}]

\* a /snapshot request whose handler has not been called
InitSnapshot == [pc |-> "none",     \* none | creating | exporting |
                                    \* uploading | done
                 status |-> NoStatus]

\* Dockerfile:17-18, the limits the image sets for /snapshot
SnapshotEnv ==
    /\ MAX_CONCURRENT_SNAPSHOTS = 4
    /\ MAX_SNAPSHOT_QUEUE = 100

HandlerStart ==
    /\ req = [s \in Subs |-> InitReq]
    /\ dbState = [d \in Dbs |-> InitInst]
    /\ snapshot = [s \in Subs |-> InitSnapshot]

\* A segment of a task is followed at once, in the same synchronous segment,
\* by the part of it that another module's action models: the call of task()
\* by the task's first statements (part_005:61-67), the task's return or throw
\* by the settling of its promise.
Urgent ==
    \E s \in Subs : \/ sub[s].task = "pending" /\ req[s].pc = "none"
                    \/ req[s].pc = "returning"

\* An event of the event loop (a request arrives, a statement or a creation of
\* DuckDB completes) is handled when the segment before it has ended and the
\* promise reactions it queued have all run.
Busy == Urgent \/ microtasks # << >>

\* part_005:64-68: the task's statements up to its first await.  In pooled
\* mode this holds the synchronous part of pool.acquire(); acquire is called
\* outside the try block, so a throw of it ends the task.
TaskStarts(s) ==
    /\ sub[s].task = "pending"
    /\ req[s].pc = "none"
    /\ IF usePool
       THEN /\ Acquire
            /\ req' = [req EXCEPT ![s] =
                  IF last'.result = "handle"
                  THEN [@ EXCEPT !.pc = "acquired", !.db = last'.db,
                                 !.acquired = @ + 1]
                  ELSE IF last'.result = "creating"
                  THEN [@ EXCEPT !.pc = "creating"]
                  ELSE [@ EXCEPT !.pc = "returning", !.fulfils = FALSE]]
       ELSE \* line 67: createDuckDB(s3Config)
            /\ factoryCalls < MaxFactoryCalls
            /\ factoryCalls' = factoryCalls + 1
            /\ req' = [req EXCEPT ![s].pc = "creating"]
            /\ UNCHANGED << queueVars, now, minSize, maxSize, recycleTTLMs, idle,
                            activeCount, creationTimes, totalCreated,
                            totalRecycled, closed, dbCount, creating, warmup,
                            lent, destroyed, born, last >>
    /\ UNCHANGED << usePool, dbState, snapshotVars, env >>

\* part_005:65 or 67: the instance is there.  In pooled mode the pool's
\* createInstance made it with the pool's s3Config (pool.ts:55); otherwise
\* createDuckDB made it with the request's.
TaskCreated(s) ==
    /\ ~Busy
    /\ req[s].pc = "creating"
    /\ IF usePool
       THEN /\ AcquireCreated
            /\ req' = [req EXCEPT ![s] = [@ EXCEPT !.pc = "acquired",
                                                   !.db = last'.db,
                                                   !.acquired = @ + 1]]
            /\ dbState' = [dbState EXCEPT ![last'.db].cred = EnvConfig]
       ELSE LET db == dbCount + 1
            IN /\ dbCount' = db
               /\ born' = [born EXCEPT ![db] = now]
               /\ req' = [req EXCEPT ![s] = [@ EXCEPT !.pc = "acquired",
                                                      !.db = db]]
               /\ dbState' = [dbState EXCEPT ![db].cred = S3ConfigOf(s)]
               /\ UNCHANGED << queueVars, now, minSize, maxSize, recycleTTLMs,
                               idle, activeCount, creationTimes, totalCreated,
                               totalRecycled, closed, factoryCalls, creating,
                               warmup, lent, destroyed, last >>
    /\ UNCHANGED << usePool, snapshotVars, env >>

\* part_005:65 or 67: the creation fails, and the task with it
TaskCreateFails(s) ==
    /\ ~Busy
    /\ req[s].pc = "creating"
    /\ IF usePool
       THEN AcquireCreateFails
       ELSE UNCHANGED << queueVars, poolVars, now >>
    /\ req' = [req EXCEPT ![s] = [@ EXCEPT !.pc = "returning", !.fulfils = FALSE]]
    /\ UNCHANGED << usePool, dbState, snapshotVars, env >>

\* how the try block of part_005:70-93 ends: every statement succeeded, or
\* the query (or the conversion of its rows) failed.  (A failing CREATE VIEW
\* takes the same catch and finally blocks.)
WorkOutcomes == {"ok", "sqlError"}

\* part_005:94-96: the catch block sets healthy = false
HealthyAlways(out) == TRUE
HealthyAfter(out) == out = "ok"

\* part_005:70-113 up to the next await after the try block.  The request has
\* one table; its view is named after the request.  In pooled mode the finally
\* block releases the instance at once when healthy is false, and awaits the
\* DROP VIEW otherwise; in the other mode it awaits db.close().  The return or
\* the rethrow follows the finally block.
Work(s, out) ==
    /\ ~Busy
    /\ req[s].pc = "acquired"
    /\ LET db == req[s].db
           h  == HealthyAfter(out)
           r  == [req[s] EXCEPT !.healthy = h,
                                !.fulfils = (out = "ok"),
                                !.ranWith = dbState[db].cred]
       IN /\ dbState' = [dbState EXCEPT ![db].views = @ \cup {s}]
          /\ IF usePool /\ ~h
             THEN \* lines 95, 98-107
                  /\ Release(db, h)
                  /\ req' = [req EXCEPT ![s] = [r EXCEPT !.pc = "returning",
                                                         !.released = @ + 1]]
             ELSE IF usePool
             THEN \* lines 100-103: await db.run(DROP VIEW ...)
                  /\ req' = [req EXCEPT ![s] = [r EXCEPT !.pc = "dropping"]]
                  /\ UNCHANGED << queueVars, poolVars, now >>
             ELSE \* line 110: await db.close()
                  /\ req' = [req EXCEPT ![s] = [r EXCEPT !.pc = "closing"]]
                  /\ destroyed' = destroyed \cup {db}
                  /\ UNCHANGED << queueVars, now, minSize, maxSize, recycleTTLMs,
                                  idle, activeCount, creationTimes, totalCreated,
                                  totalRecycled, closed, factoryCalls, dbCount,
                                  creating, warmup, lent, born, last >>
    /\ UNCHANGED << usePool, snapshotVars, env >>

\* part_005:100-108: DROP VIEW IF EXISTS settles; a rejection is discarded by
\* .catch(() => {}), healthy stays true, and the instance is released.
Dropped(s, dropOk) ==
    /\ ~Busy
    /\ req[s].pc = "dropping"
    /\ LET db == req[s].db
       IN /\ dbState' = [dbState EXCEPT ![db].views = IF dropOk THEN @ \ {s} ELSE @]
          /\ Release(db, req[s].healthy)
    /\ req' = [req EXCEPT ![s] = [@ EXCEPT !.pc = "returning",
                                           !.released = @ + 1]]
    /\ UNCHANGED << usePool, snapshotVars, env >>

\* part_005:110-111: db.close() settles; its rejection is the task's
OwnClosed(s, closeOk) ==
    /\ ~Busy
    /\ req[s].pc = "closing"
    /\ req' = [req EXCEPT ![s] = [@ EXCEPT !.pc = "returning",
                                           !.fulfils = req[s].fulfils /\ closeOk]]
    /\ UNCHANGED << queueVars, poolVars, now, usePool, dbState, snapshotVars, env >>

\* part_005:93 or 95 or 114: the task returns or throws, its promise settles
TaskReturns(s) ==
    /\ req[s].pc = "returning"
    /\ TaskSettles(s, req[s].fulfils)
    /\ req' = [req EXCEPT ![s].pc = "done"]
    /\ UNCHANGED << usePool, dbState, snapshotVars, env >>

\* part_005:59: a request arrives and handleQuery calls runWithQueryQueue
\* The requests that arrive.  When one task runs at a time, enough of them
\* arrive for one to find a task running and the queue full.
Arrivals == IF MAX_CONCURRENT = 1
            THEN Max(MaxRequests, MAX_CONCURRENT + MAX_QUEUE + 1)
            ELSE MaxRequests

Request(s) ==
    /\ ~Busy
    /\ s <= Arrivals
    /\ Submit(s)
    /\ UNCHANGED handlerVars

\* part_005:117-166: the status of the response, from the way the await of
\* runWithQueryQueue ended: res.json(payload) answers 200, the catch block
\* answers error.statusCode (503, query_queue.ts:36) on a
\* SidecarQueueSaturatedError and 500 on any other error.
StatusBusyOnAnyError(result) ==
    IF result.kind = "ok" THEN 200 ELSE 503
StatusOf(result) ==
    IF result.kind = "ok" THEN 200
    ELSE IF result.error.name = SidecarQueueSaturatedError.name THEN 503
    ELSE 500

\* part_005:59 and 117-166: the await of runWithQueryQueue resumes and the
\* handler sends its response.
Responds ==
    /\ CallerObserves
    /\ LET s == Head(microtasks).s
       IN req' = [req EXCEPT ![s].status = StatusOf(sub[s].result)]
    /\ UNCHANGED << usePool, dbState, snapshotVars, env >>

\* pool.ts:55: an instance of the pool's warmup is made with the pool's
\* s3Config
PoolWarmupCreated ==
    /\ WarmupCreated
    /\ dbState' = [dbState EXCEPT ![last'.db].cred = EnvConfig]
    /\ UNCHANGED << usePool, req, snapshotVars, env >>

(* ========================= specifications ============================= *)
\* query_queue.ts:24-28 at module load
QueueStart ==
    /\ running = 0
    /\ queue = << >>
    /\ microtasks = << >>
    /\ sub = [s \in Subs |-> InitSub]
    /\ submitted = 0
    /\ enqLog = << >>
    /\ dispLog = << >>
    /\ lastSubmit = [s |-> 0, running |-> 0, queued |-> 0]

\* pool.ts:18-39, a pool as constructed
PoolStart ==
    /\ idle = << >>
    /\ activeCount = 0
    /\ creationTimes = [d \in Dbs |-> Absent]
    /\ totalCreated = 0
    /\ totalRecycled = 0
    /\ closed = FALSE
    /\ factoryCalls = 0
    /\ dbCount = 0
    /\ creating = 0
    /\ warmup = [state |-> "none", inFlight |-> 0, outcomes |-> << >>,
                 error |-> 0]
    /\ lent = {}
    /\ destroyed = {}
    /\ born = [d \in Dbs |-> Absent]
    /\ last = Outcome("none", "none", NoDb)

\* The admission queue alone.  The limits are positive integers
\* (parsePositiveIntEnv, query_queue.ts:16-22).
Init ==
    /\ MAX_CONCURRENT \in 1 .. MaxConcurrentCfg
    /\ MAX_QUEUE \in 1 .. MaxQueueCfg
    /\ QueueStart
    /\ minSize = 1 /\ maxSize = 1 /\ recycleTTLMs = 1
    /\ PoolStart
    /\ usePool = FALSE
    /\ SnapshotEnv
    /\ env = EnvUnset
    /\ HandlerStart
    /\ now = 0

Next ==
    \/ \E s \in Subs : Submit(s) /\ UNCHANGED handlerVars
    \/ \E s \in Subs, ok \in BOOLEAN : TaskSettles(s, ok) /\ UNCHANGED handlerVars
    \/ ImmediateResume /\ UNCHANGED handlerVars
    \/ ThenCallback /\ UNCHANGED handlerVars
    \/ CatchCallback /\ UNCHANGED handlerVars
    \/ FinallyCallback /\ UNCHANGED handlerVars
    \/ QueuedResume /\ UNCHANGED handlerVars
    \/ CallerObserves /\ UNCHANGED handlerVars

Spec == Init /\ [][Next]_vars

\* The admission queue with its clock.
TimedNext ==
    \/ \E s \in Subs : s <= MaxTimedSubs /\ Submit(s) /\ UNCHANGED handlerVars
    \/ \E s \in Subs, ok \in BOOLEAN : TaskSettles(s, ok) /\ UNCHANGED handlerVars
    \/ ImmediateResume /\ UNCHANGED handlerVars
    \/ ThenCallback /\ UNCHANGED handlerVars
    \/ CatchCallback /\ UNCHANGED handlerVars
    \/ FinallyCallback /\ UNCHANGED handlerVars
    \/ QueuedResume /\ UNCHANGED handlerVars
    \/ CallerObserves /\ UNCHANGED handlerVars
    \/ \E t \in 0 .. MaxTime : QueueClock(t)

\* One call runs at a time, so that calls wait.
TimedInit ==
    /\ Init
    /\ MAX_CONCURRENT = 1

TimedSpec == TimedInit /\ [][TimedNext]_vars

\* The admission queue under the event loop's scheduling: a promise reaction
\* that was queued is run (the microtask queue is emptied after every
\* segment).  Nothing is assumed of the tasks.
RunsMicrotask ==
    \/ ImmediateResume
    \/ ThenCallback
    \/ CatchCallback
    \/ FinallyCallback
    \/ QueuedResume
    \/ CallerObserves

LiveNext ==
    \/ \E s \in Subs : s <= MaxLiveSubs /\ Submit(s) /\ UNCHANGED handlerVars
    \/ \E s \in Subs, ok \in BOOLEAN : TaskSettles(s, ok) /\ UNCHANGED handlerVars
    \/ ImmediateResume /\ UNCHANGED handlerVars
    \/ ThenCallback /\ UNCHANGED handlerVars
    \/ CatchCallback /\ UNCHANGED handlerVars
    \/ FinallyCallback /\ UNCHANGED handlerVars
    \/ QueuedResume /\ UNCHANGED handlerVars
    \/ CallerObserves /\ UNCHANGED handlerVars

LiveSpec ==
    /\ Init
    /\ [][LiveNext]_vars
    /\ WF_vars(RunsMicrotask /\ UNCHANGED handlerVars)

\* The pool alone, under callers that call warmup at most once, acquire and
\* drain at any time, and release what they hold.  The constructor
\* (pool.ts:29-39) takes the sizes as they are given, and initPool
\* (pool.ts:155-159) gives them as parsed, without comparing them: maxSize and
\* the recycle age are positive, minSize is any size.
PoolInit ==
    /\ MAX_CONCURRENT = 1 /\ MAX_QUEUE = 1
    /\ QueueStart
    /\ minSize \in 0 .. MaxMinSize
    /\ maxSize \in 1 .. MaxMaxSize
    /\ recycleTTLMs \in 1 .. MaxTTL
    /\ PoolStart
    /\ usePool = TRUE
    /\ SnapshotEnv
    /\ env = EnvUnset
    /\ HandlerStart
    /\ now = 0

PoolNext ==
    \/ Warmup /\ UNCHANGED handlerVars
    \/ WarmupCreated /\ UNCHANGED handlerVars
    \/ WarmupCreateFails /\ UNCHANGED handlerVars
    \/ Acquire /\ UNCHANGED handlerVars
    \/ AcquireCreated /\ UNCHANGED handlerVars
    \/ AcquireCreateFails /\ UNCHANGED handlerVars
    \/ \E db \in Dbs, healthy \in BOOLEAN :
           Release(db, healthy) /\ UNCHANGED handlerVars
    \/ Drain /\ UNCHANGED handlerVars
    \/ Tick

PoolSpec == PoolInit /\ [][PoolNext]_vars

\* The pool under callers that also release what they do not hold.
MisuseNext ==
    \/ Warmup /\ UNCHANGED handlerVars
    \/ WarmupCreated /\ UNCHANGED handlerVars
    \/ WarmupCreateFails /\ UNCHANGED handlerVars
    \/ Acquire /\ UNCHANGED handlerVars
    \/ AcquireCreated /\ UNCHANGED handlerVars
    \/ AcquireCreateFails /\ UNCHANGED handlerVars
    \/ \E db \in Dbs, healthy \in BOOLEAN :
           Release(db, healthy) /\ UNCHANGED handlerVars
    \/ \E db \in Dbs, healthy \in BOOLEAN :
           ReleaseNotHeld(db, healthy) /\ UNCHANGED handlerVars
    \/ Drain /\ UNCHANGED handlerVars
    \/ Tick

MisuseSpec == PoolInit /\ [][MisuseNext]_vars

\* POST /query: the requests, the admission queue and, in pooled mode, the
\* pool (part_005).  One request waits at most, and the pool is as large as the
\* queue's concurrency or larger (the defaults are 12 and 12,
\* query_queue.ts:24 and pool.ts:149).
QueryInit ==
    /\ MAX_CONCURRENT \in 1 .. MaxConcurrentCfg
    /\ MAX_QUEUE = 1
    /\ QueueStart
    /\ usePool \in BOOLEAN
    /\ minSize \in (IF usePool THEN 0 .. 1 ELSE {0})
    /\ maxSize \in (IF usePool THEN MAX_CONCURRENT .. MaxMaxSize
                               ELSE {MAX_CONCURRENT})
    /\ recycleTTLMs = 1
    /\ PoolStart
    /\ SnapshotEnv
    /\ env = EnvUnset
    /\ HandlerStart
    /\ now = 0

\* initPool (pool.ts:144-162) warms the pool up; the pool is not drained
\* while requests are served.
QueryNext ==
    \/ \E s \in Subs : Request(s)
    \/ ~Urgent /\ ImmediateResume /\ UNCHANGED handlerVars
    \/ ~Urgent /\ ThenCallback /\ UNCHANGED handlerVars
    \/ ~Urgent /\ CatchCallback /\ UNCHANGED handlerVars
    \/ ~Urgent /\ FinallyCallback /\ UNCHANGED handlerVars
    \/ ~Urgent /\ QueuedResume /\ UNCHANGED handlerVars
    \/ ~Urgent /\ Responds
    \/ ~Busy /\ usePool /\ Warmup /\ UNCHANGED handlerVars
    \/ ~Busy /\ usePool /\ PoolWarmupCreated
    \/ ~Busy /\ usePool /\ WarmupCreateFails /\ UNCHANGED handlerVars
    \/ \E s \in Subs : TaskStarts(s)
    \/ \E s \in Subs : TaskCreated(s)
    \/ \E s \in Subs : TaskCreateFails(s)
    \/ \E s \in Subs, out \in WorkOutcomes : Work(s, out)
    \/ \E s \in Subs, dropOk \in BOOLEAN : Dropped(s, dropOk)
    \/ \E s \in Subs, closeOk \in BOOLEAN : OwnClosed(s, closeOk)
    \/ \E s \in Subs : TaskReturns(s)

QuerySpec == QueryInit /\ [][QueryNext]_vars

(* ===================== configuration from process.env ================= *)
\* pool.ts:144-159, initPool up to the construction of the pool: without the
\* S3 variables it returns false and leaves pool null; otherwise the three
\* sizes are parsed and given to the constructor as they are.
InitPool ==
    /\ ~usePool
    /\ last.op = "none"
    /\ IF ~env.S3
       THEN /\ last' = Outcome("initPool", "disabled", NoDb)
            /\ UNCHANGED << minSize, maxSize, recycleTTLMs, usePool >>
       ELSE /\ minSize' = parsePositiveIntEnv(env.DUCKDB_POOL_SIZE, 4)
            /\ maxSize' = parsePositiveIntEnv(env.DUCKDB_POOL_MAX, 12)
            /\ recycleTTLMs' =
                   parsePositiveIntEnv(env.DUCKDB_POOL_RECYCLE_MS, 900000)
            /\ usePool' = TRUE
            /\ last' = Outcome("initPool", "made", NoDb)
    /\ UNCHANGED << queueVars, now, idle, activeCount, creationTimes,
                    totalCreated, totalRecycled, closed, factoryCalls, dbCount,
                    creating, warmup, lent, destroyed, born, req, dbState,
                    snapshotVars, env >>

\* The process starts with an environment and calls initPool, which warms the
\* pool up (pool.ts:160).  No pool exists before: its fields are read after
\* initPool only.
ConfigInit ==
    /\ MAX_CONCURRENT = 1 /\ MAX_QUEUE = 1
    /\ QueueStart
    /\ minSize = 0 /\ maxSize = 0 /\ recycleTTLMs = 0
    /\ PoolStart
    /\ usePool = FALSE
    /\ SnapshotEnv
    /\ env \in [DUCKDB_POOL_SIZE : RawValues,
                 DUCKDB_POOL_MAX : RawValues,
                 DUCKDB_POOL_RECYCLE_MS : {<< >>, << "1" >>},
                 SIDECAR_MAX_CONCURRENT_QUERIES : {<< >>},
                 SIDECAR_MAX_QUERY_QUEUE : {<< >>},
                 S3 : BOOLEAN]
    /\ HandlerStart
    /\ now = 0

ConfigNext ==
    \/ InitPool
    \/ usePool /\ Warmup /\ UNCHANGED handlerVars
    \/ usePool /\ WarmupCreated /\ UNCHANGED handlerVars
    \/ usePool /\ WarmupCreateFails /\ UNCHANGED handlerVars

ConfigSpec == ConfigInit /\ [][ConfigNext]_vars

\* query_queue.ts:24-28 at module load: the two limits are parsed from the
\* environment.  One call runs at a time, so that calls wait.
EnvQueueInit ==
    /\ env \in [DUCKDB_POOL_SIZE : {<< >>},
                 DUCKDB_POOL_MAX : {<< >>},
                 DUCKDB_POOL_RECYCLE_MS : {<< >>},
                 SIDECAR_MAX_CONCURRENT_QUERIES : {<< "1" >>},
                 SIDECAR_MAX_QUERY_QUEUE : RawValues,
                 S3 : {FALSE}]
    /\ MAX_CONCURRENT = parsePositiveIntEnv(env.SIDECAR_MAX_CONCURRENT_QUERIES, 12)
    /\ MAX_QUEUE = parsePositiveIntEnv(env.SIDECAR_MAX_QUERY_QUEUE, 200)
    /\ QueueStart
    /\ minSize = 1 /\ maxSize = 1 /\ recycleTTLMs = 1
    /\ PoolStart
    /\ usePool = FALSE
    /\ SnapshotEnv
    /\ HandlerStart
    /\ now = 0

EnvQueueNext ==
    \/ \E s \in Subs : s <= MaxEnvSubs /\ Submit(s) /\ UNCHANGED handlerVars
    \/ \E s \in Subs, ok \in BOOLEAN : TaskSettles(s, ok) /\ UNCHANGED handlerVars
    \/ ImmediateResume /\ UNCHANGED handlerVars
    \/ ThenCallback /\ UNCHANGED handlerVars
    \/ CatchCallback /\ UNCHANGED handlerVars
    \/ FinallyCallback /\ UNCHANGED handlerVars
    \/ QueuedResume /\ UNCHANGED handlerVars
    \/ CallerObserves /\ UNCHANGED handlerVars

EnvQueueSpec == EnvQueueInit /\ [][EnvQueueNext]_vars

(* ========================== POST /snapshot ============================ *)
\* server.ts:143-185: handleSnapshot is called with a request; a body that
\* fails validation is answered with 400, any other request goes on to
\* Database.create (line 188) at once.
SnapshotArrives(s, valid) ==
    /\ snapshot[s].pc = "none"
    /\ snapshot' = [snapshot EXCEPT ![s] =
                       IF valid THEN [@ EXCEPT !.pc = "creating"]
                                ELSE [pc |-> "done", status |-> 400]]
    /\ UNCHANGED << queueVars, poolVars, now, usePool, req, dbState,
                    MAX_CONCURRENT_SNAPSHOTS, MAX_SNAPSHOT_QUEUE, env >>

\* server.ts:187-253: the awaited steps of the handler, in order; a failure of
\* one of them reaches the catch block, which answers 500 (lines 243-247); the
\* last one is followed by res.json (line 238).
SnapshotNextPc(pc) ==
    CASE pc = "creating" -> "exporting"      \* Database.create, line 188
      [] pc = "exporting" -> "uploading"     \* CREATE TABLE .. db.close, 190-222
      [] pc = "uploading" -> "done"          \* readFile, uploadToS3, 225-232

SnapshotSteps(s, ok) ==
    /\ snapshot[s].pc \in {"creating", "exporting", "uploading"}
    /\ snapshot' = [snapshot EXCEPT ![s] =
                       IF ~ok THEN [pc |-> "done", status |-> 500]
                       ELSE IF SnapshotNextPc(snapshot[s].pc) = "done"
                       THEN [pc |-> "done", status |-> 200]
                       ELSE [@ EXCEPT !.pc = SnapshotNextPc(snapshot[s].pc)]]
    /\ UNCHANGED << queueVars, poolVars, now, usePool, req, dbState,
                    MAX_CONCURRENT_SNAPSHOTS, MAX_SNAPSHOT_QUEUE, env >>

\* The /snapshot handler alone, under the limits of its environment.
SnapshotInit ==
    /\ MAX_CONCURRENT = 1 /\ MAX_QUEUE = 1
    /\ QueueStart
    /\ minSize = 1 /\ maxSize = 1 /\ recycleTTLMs = 1
    /\ PoolStart
    /\ usePool = FALSE
    /\ MAX_CONCURRENT_SNAPSHOTS \in 1 .. MaxSnapshotCfg
    /\ MAX_SNAPSHOT_QUEUE \in 1 .. MaxSnapshotCfg
    /\ env = EnvUnset
    /\ HandlerStart
    /\ now = 0

SnapshotNext ==
    \/ \E s \in Subs, valid \in BOOLEAN : SnapshotArrives(s, valid)
    \/ \E s \in Subs, ok \in BOOLEAN : SnapshotSteps(s, ok)

SnapshotSpec == SnapshotInit /\ [][SnapshotNext]_vars

(* ============================== claims ================================ *)
\* tasks whose task() was called and whose promise has not settled
InFlight == { s \in Subs : sub[s].task = "pending" }
\* calls whose task was invoked and whose slot has not been released
HoldingSlot == { s \in Subs : sub[s].invoked > 0 /\ sub[s].released = 0 }
QueuedTasks == [i \in 1 .. Len(queue) |-> queue[i].task]
Settled(s) == sub[s].result.kind \in {"ok", "err"}

\* C1  Bounded concurrency: the counter `running` and the number of tasks that
\* were invoked and have not completed never exceed MAX_CONCURRENT.
C1_BoundedConcurrency ==
    /\ running <= MAX_CONCURRENT
    /\ Cardinality(InFlight) <= MAX_CONCURRENT

\* every slot is taken and a waiter is queued, after one task has failed and
\* one has succeeded
C1_Witness ==
    /\ running = MAX_CONCURRENT
    /\ Cardinality(InFlight) = MAX_CONCURRENT
    /\ Len(queue) > 0
    /\ \E s \in Subs : sub[s].task = "rejected" /\ sub[s].released = 1
    /\ \E s \in Subs : sub[s].task = "fulfilled" /\ sub[s].released = 1

\* C2  Saturation is exact: a call made with running = MAX_CONCURRENT and
\* queue.length = MAX_QUEUE is rejected with SidecarQueueSaturatedError in its
\* synchronous part, its task is not invoked and running, the queue and every
\* other call are left as they were; a call made with running =
\* MAX_CONCURRENT and queue.length < MAX_QUEUE is queued, not rejected.
C2_SaturationExact ==
    [][\A s \in Subs : Submit(s) =>
          /\ (running = MAX_CONCURRENT /\ Len(queue) = MAX_QUEUE) =>
                /\ sub'[s].result = Rejected(SidecarQueueSaturatedError)
                /\ sub'[s].invoked = 0
                /\ sub'[s].task = "notInvoked"
                /\ running' = running
                /\ queue' = queue
                /\ \A o \in Subs \ {s} : sub'[o] = sub[o]
          /\ (running = MAX_CONCURRENT /\ Len(queue) < MAX_QUEUE) =>
                /\ sub'[s].result = Pending
                /\ sub'[s].path = "queued"
                /\ queue' = Append(queue, QueueItem(s, now, Len(queue)))
      ]_vars

\* maxConcurrent = 2, maxQueueDepth = 1, four tasks that have not settled:
\* 1 and 2 run, 3 is queued, 4 is rejected
C2_Witness ==
    /\ MAX_CONCURRENT = 2 /\ MAX_QUEUE = 1
    /\ sub[1].path = "immediate" /\ sub[1].task = "pending"
    /\ sub[2].path = "immediate" /\ sub[2].task = "pending"
    /\ sub[3].path = "queued" /\ QueuedTasks = << 3 >>
    /\ sub[4].result = Rejected(SidecarQueueSaturatedError)
    /\ sub[4].invoked = 0
    /\ running = 2

\* C3  FIFO admission: queued calls have their tasks invoked in the order they
\* were pushed; the calls dispatched so far are a prefix of the calls pushed
\* and the queue holds the rest, in push order.
C3_FifoAdmission ==
    /\ Len(dispLog) <= Len(enqLog)
    /\ dispLog = SubSeq(enqLog, 1, Len(dispLog))
    /\ QueuedTasks = SubSeq(enqLog, Len(dispLog) + 1, Len(enqLog))

\* two waiters were queued together and have been dispatched, a third waits
C3_Witness ==
    /\ Len(dispLog) >= 2
    /\ Len(queue) >= 1
    /\ \E s \in Subs : sub[s].path = "queued" /\ sub[s].depth = 1
                        /\ sub[s].invoked = 1

\* C9  Queue depth bound: queue.length <= MAX_QUEUE and running + queue.length
\* <= MAX_CONCURRENT + MAX_QUEUE in every state, and an item is pushed only by a
\* step that found queue.length < MAX_QUEUE (check and push are one
\* synchronous segment).
C9_QueueDepthBound ==
    /\ [](Len(queue) <= MAX_QUEUE /\ running + Len(queue) <= MAX_CONCURRENT + MAX_QUEUE)
    /\ [][Len(enqLog') > Len(enqLog) =>
            /\ Len(queue) < MAX_QUEUE
            /\ \E s \in Subs : Submit(s)]_vars

\* the queue is full behind MAX_CONCURRENT running tasks, and the last call
\* was pushed onto a queue that already held a waiter
C9_Witness ==
    /\ Len(queue) = MAX_QUEUE
    /\ running = MAX_CONCURRENT
    /\ MAX_QUEUE = 2
    /\ lastSubmit.queued = 1
    /\ sub[lastSubmit.s].path = "queued"

\* C10  No retry, verbatim failure: the task of an admitted call is invoked
\* once and never again; when it rejects the call rejects with the task's own
\* error, when it fulfils the call fulfils with its value; the slot is
\* released once whatever the outcome, and running counts exactly the calls
\* that hold a slot.
C10_NoRetryVerbatimFailure ==
    /\ \A s \in Subs :
          /\ sub[s].invoked <= 1
          /\ sub[s].released <= sub[s].invoked
          /\ sub[s].path = "immediate" => sub[s].invoked = 1
          /\ sub[s].path = "queued" =>
                sub[s].invoked = (IF \E i \in 1 .. Len(queue) : queue[i].task = s
                                  THEN 0 ELSE 1)
          /\ sub[s].path \in {"none", "rejected"} => sub[s].invoked = 0
          /\ sub[s].path \in {"immediate", "queued"} /\ Settled(s) =>
                /\ sub[s].invoked = 1
                /\ sub[s].task = "rejected" => sub[s].result = Rejected(TaskError(s))
                /\ sub[s].task = "fulfilled" =>
                      /\ sub[s].result.kind = "ok"
                      /\ sub[s].result.value = TaskValue(s)
                /\ sub[s].task \in {"rejected", "fulfilled"}
          /\ sub[s].path = "immediate" /\ Settled(s) => sub[s].released = 1
          /\ sub[s].task \in {"rejected", "fulfilled"} /\ microtasks = << >> =>
                sub[s].released = 1 /\ Settled(s)
    /\ running = Cardinality(HoldingSlot)

\* a call that ran at once and a call that was queued have both failed with
\* their tasks' errors, the callers have seen it, and the slots are free again
C10_Witness ==
    /\ \E s \in Subs : /\ sub[s].path = "immediate"
                        /\ sub[s].result = Rejected(TaskError(s))
                        /\ sub[s].observed
    /\ \E s \in Subs : /\ sub[s].path = "queued"
                        /\ sub[s].result = Rejected(TaskError(s))
                        /\ sub[s].observed /\ sub[s].released = 1
    /\ running = 0

(* ------------------------------ pool ---------------------------------- *)
IdleDbs == { idle[i].db : i \in 1 .. Len(idle) }
ReturnsHandle == (Acquire \/ AcquireCreated) /\ last'.result = "handle"

\* C4  Active bound: activeCount never exceeds maxSize.
C4_ActiveBound == activeCount <= maxSize

\* C5  TTL freshness, as claimed: an instance the factory created at t0 is not
\* returned by acquire at any t >= t0 + recycleTTL.
C5_TtlFreshnessInclusive ==
    last.result = "handle" => now - born[last.db] < recycleTTLMs

\* C5  TTL freshness, amended: an instance the factory created at t0 is not
\* returned by acquire at any t > t0 + recycleTTL.
C5_TtlFreshness ==
    last.result = "handle" => now - born[last.db] <= recycleTTLMs

\* acquire has just returned an idle instance whose age is exactly recycleTTL
C5_Witness ==
    /\ last.op = "acquire" /\ last.result = "handle"
    /\ now - born[last.db] = recycleTTLMs
    /\ last.db \in lent

\* C6  Unhealthy never recycled: release(h, false) destroys h and leaves it out
\* of idle; an instance that was destroyed is never in idle and never held by
\* a caller afterwards; an acquire that follows release(h, false) on an open
\* pool with idle empty and activeCount < maxSize calls the factory, and the
\* instance the factory makes is a new one.
C6_UnhealthyNeverRecycled ==
    [][/\ \A h \in Dbs : Release(h, FALSE) =>
             h \in destroyed' /\ h \notin IdleDbs' /\ idle' = idle
       /\ destroyed \subseteq destroyed'
       /\ destroyed' \cap (IdleDbs' \cup lent') = {}
       /\ ( /\ last.op = "release" /\ last.result = "unhealthy"
            /\ Acquire /\ ~closed /\ idle = << >> /\ HasCapacity(activeCount) )
          => /\ last'.result = "creating"
             /\ factoryCalls' = factoryCalls + 1
             /\ lent' = lent
       /\ AcquireCreated => last'.db \notin (destroyed \cup lent \cup IdleDbs)
      ]_vars

\* minSize = 1, idle empty: the only instance was released unhealthy (nothing
\* can expire at time 0, nothing was trimmed) and the acquire just made has
\* called the factory a second time
C6_Witness ==
    /\ minSize = 1 /\ maxSize = 1 /\ ~closed /\ now = 0
    /\ dbCount = 1 /\ destroyed = {1} /\ totalRecycled = 1
    /\ idle = << >> /\ lent = {}
    /\ last = Outcome("acquire", "creating", NoDb)
    /\ factoryCalls = 2 /\ creating = 1

\* C7  Drain finality: once drain has been called idle is empty, and an acquire
\* made afterwards fails with 'Pool is closed', creates nothing and leaves
\* activeCount as it was.
C7_DrainFinality ==
    [][/\ closed' => idle' = << >>
       /\ (closed /\ Acquire) =>
             /\ last'.result = "closed"
             /\ UNCHANGED << activeCount, factoryCalls, creating, dbCount,
                             lent, idle >>
      ]_vars

\* C8  Exclusive ownership: no instance is idle and held by a caller at once,
\* none is twice in idle, and the handle an acquire returns was neither held by
\* a caller nor is it left in idle.
C8_ExclusiveOwnership ==
    /\ [](IdleDbs \cap lent = {} /\ Cardinality(IdleDbs) = Len(idle))
    /\ [][ReturnsHandle =>
            /\ last'.db \notin lent
            /\ last'.db \notin IdleDbs'
            /\ lent' = lent \cup {last'.db}]_vars

\* a caller holds one handle, a released instance went back to idle, and a
\* second acquire has just taken it: two callers hold two different handles
C8_Witness ==
    /\ last.op = "acquire" /\ last.result = "handle"
    /\ Cardinality(lent) = 2
    /\ last.db \in lent
    /\ idle = << >>

(* ---------------------------------------------------------------------- *)
\* C11: a call that ran immediately resolves with queueWaitMs = 0 and
\* queueDepthOnEnqueue = 0; a call that was queued resolves with
\* queueDepthOnEnqueue equal to the number of items that were in the queue
\* just before its push and queueWaitMs = max(0, time its task was called -
\* time it was pushed).
C11_ResultMetadata ==
    \A s \in Subs :
        sub[s].result.kind = "ok" =>
            /\ sub[s].path \in {"immediate", "queued"}
            /\ sub[s].path = "immediate" =>
                   /\ sub[s].result.queueWaitMs = 0
                   /\ sub[s].result.queueDepthOnEnqueue = 0
            /\ sub[s].path = "queued" =>
                   /\ sub[s].result.queueDepthOnEnqueue = sub[s].waitersAhead
                   /\ sub[s].result.queueWaitMs =
                          Max(0, sub[s].elapsed)

\* Two calls have resolved: one that ran at once, and one that was pushed
\* behind another waiter and whose task was called at a later clock reading.
C11_Witness ==
    /\ \E s \in Subs : sub[s].path = "immediate" /\ sub[s].result.kind = "ok"
    /\ \E s \in Subs : /\ sub[s].path = "queued"
                       /\ sub[s].result.kind = "ok"
                       /\ sub[s].waitersAhead = 1
                       /\ sub[s].result.queueDepthOnEnqueue = 1
                       /\ sub[s].elapsed > 0
                       /\ sub[s].result.queueWaitMs > 0

(* ---------------------------------------------------------------------- *)
Age(d) == now - born[d]
ExpiredIdle == { d \in IdleDbs : Age(d) > recycleTTLMs }

\* C12  Age invariant: every handle acquire returns has now - createdAt <=
\* recycleTTL when it is returned, createdAt being the time the factory
\* returned it; acquire closes the idle instances it finds older than that and
\* returns none of them: the instance it returns instead is another one, not
\* older than recycleTTL, and one the factory makes for it is new.
C12_AgeInvariant ==
    /\ [](last.result = "handle" =>
            /\ Age(last.db) <= recycleTTLMs
            /\ creationTimes[last.db] = born[last.db])
    /\ [][/\ (Acquire /\ ~closed) =>
             /\ \A i \in 1 .. Len(idle) :
                    (\A j \in i .. Len(idle) : idle[j].db \in ExpiredIdle) =>
                        /\ idle[i].db \in last'.evicted
                        /\ idle[i].db \in destroyed'
                        /\ idle[i].db \notin lent' \cup IdleDbs'
                        /\ last'.db # idle[i].db
             /\ last'.evicted \subseteq ExpiredIdle
          /\ AcquireCreated =>
                /\ last'.db \notin 1 .. dbCount
                /\ born'[last'.db] = now
         ]_vars

\* recycleTTL = 1: the instance the factory returned at time 0 was idle at
\* time 2; the acquire just made has closed it and called the factory
C12_Witness ==
    /\ recycleTTLMs = 1 /\ now = 2 /\ ~closed
    /\ born[1] = 0
    /\ last.op = "acquire" /\ last.evicted = {1} /\ last.result = "creating"
    /\ 1 \in destroyed /\ idle = << >> /\ creating = 1

\* C13  Pool exhausted: an acquire on an open pool fails with 'Pool exhausted'
\* exactly when no idle instance is usable and activeCount >= maxSize; it fails
\* in the call itself, suspends nothing, and leaves activeCount and
\* totalCreated alone.
C13_PoolExhausted ==
    [][(Acquire /\ ~closed) =>
          /\ last'.result = "exhausted" <=>
                 (IdleDbs = ExpiredIdle /\ activeCount >= maxSize)
          /\ last'.result = "exhausted" =>
                 /\ activeCount' = activeCount
                 /\ totalCreated' = totalCreated
                 /\ creating' = creating
                 /\ factoryCalls' = factoryCalls
                 /\ lent' = lent
      ]_vars

\* minSize = 1, maxSize = 2: after the warmup two acquires returned the two
\* instances, none was released, and the third acquire has just failed
C13_Witness ==
    /\ minSize = 1 /\ maxSize = 2 /\ ~closed
    /\ warmup.state = "done"
    /\ lent = {1, 2} /\ activeCount = 2 /\ destroyed = {} /\ totalRecycled = 0
    /\ totalCreated = 2
    /\ last.op = "acquire" /\ last.result = "exhausted"

\* C14  Warmup: on a pool on which only warmup has called the factory, whose
\* calls all succeeded, and no handle is out and nothing was closed, the
\* completed warmup leaves exactly minSize instances in idle, activeCount = 0
\* and totalCreated = minSize.
C14_WarmupFillsIdle ==
    ( /\ warmup.state = "done" /\ warmup.inFlight = 0
      /\ ~closed /\ factoryCalls = minSize /\ lent = {} /\ destroyed = {} )
    => /\ Len(idle) = minSize
       /\ Cardinality(IdleDbs) = minSize
       /\ activeCount = 0
       /\ totalCreated = minSize

\* the warmup of a pool of minSize = 1 has just completed
C14_Witness ==
    /\ minSize = 1 /\ warmup.state = "done" /\ ~closed
    /\ last.op = "warmupCreated" /\ last.result = "idle"
    /\ factoryCalls = 1 /\ lent = {} /\ destroyed = {}
    /\ Len(idle) = 1 /\ totalCreated = 1

\* C15  Drain touches only idle capacity and is idempotent: a drain leaves
\* activeCount and the handles that are out as they were and closes none of
\* them, closes every idle instance (none of which was closed before) and
\* empties idle; a drain that follows a drain changes no field of the pool.
C15_DrainIdleOnly ==
    [][Drain =>
          /\ activeCount' = activeCount
          /\ lent' = lent
          /\ creationTimes' = creationTimes
          /\ lent \cap destroyed' = lent \cap destroyed
          /\ IdleDbs \cap destroyed = {}
          /\ destroyed' = destroyed \cup IdleDbs
          /\ idle' = << >>
          /\ closed'
          /\ last.op = "drain" =>
                 UNCHANGED << minSize, maxSize, recycleTTLMs, idle, activeCount,
                              creationTimes, totalCreated, totalRecycled, closed,
                              factoryCalls, dbCount, creating, warmup, lent,
                              destroyed, born >>
      ]_vars

\* a drain has just closed the idle instance 2 while handle 1 is out
C15_Witness ==
    /\ last.op = "drain" /\ closed
    /\ lent = {1} /\ activeCount = 1
    /\ destroyed = {2} /\ idle = << >>

\* C16  Destructor failures are swallowed: when a close() called by release
\* (unhealthy, closed pool, or trim), by acquire (expired instance) or by drain
\* rejects, the rejection does not leave the operation, and the operation
\* returns what it returns and counts what it counts when close() fulfils.
C16_CloseFailuresSwallowed ==
    [][last'.closeFailed =>
          /\ ~last'.escaped
          /\ last'.op \in {"release", "acquire", "drain"}
          /\ last'.op = "release" =>
                 /\ activeCount' = activeCount - 1
                 /\ last'.db \notin lent'
                 /\ last'.result \in {"healthy", "unhealthy"}
                 /\ totalRecycled' = totalRecycled +
                        Cardinality(destroyed' \ destroyed) -
                        (IF closed /\ last'.result = "healthy" THEN 1 ELSE 0)
          /\ last'.op = "acquire" =>
                 /\ totalRecycled' = totalRecycled + Cardinality(last'.evicted)
                 /\ last'.result = "handle" <=> IdleDbs # ExpiredIdle
                 /\ last'.result = "handle" => activeCount' = activeCount + 1
                 /\ last'.result = "creating" <=>
                        (IdleDbs = ExpiredIdle /\ activeCount < maxSize)
                 /\ last'.result = "exhausted" <=>
                        (IdleDbs = ExpiredIdle /\ activeCount >= maxSize)
          /\ last'.op = "drain" =>
                 /\ closed' /\ idle' = << >>
                 /\ totalRecycled' = totalRecycled
                 /\ activeCount' = activeCount
      ]_vars

\* the close() of an unhealthy release has just rejected
C16_Witness ==
    /\ last.op = "release" /\ last.result = "unhealthy" /\ last.closeFailed
    /\ last.db \in destroyed /\ ~closed

(* ---------------------------------------------------------------------- *)
\* C17  Composition: with every unit of work run through the admission queue,
\* each acquiring at most one instance and releasing it before it completes,
\* and MAX_CONCURRENT <= maxSize, no acquire fails with 'Pool exhausted' and
\* activeCount (with the acquires suspended in a creation) never exceeds
\* `running`.
C17_QueueCapsPool ==
    (usePool /\ MAX_CONCURRENT <= maxSize) =>
        /\ last.result # "exhausted"
        /\ activeCount <= running
        /\ activeCount + creating <= running
        /\ \A s \in Subs : req[s].acquired <= 1

\* two units of work hold the two instances of a pool of maxSize = 2 under
\* MAX_CONCURRENT = 2
C17_Witness ==
    /\ usePool /\ MAX_CONCURRENT = 2 /\ maxSize = 2
    /\ running = 2 /\ activeCount = 2
    /\ \E s1, s2 \in Subs : /\ s1 # s2
                             /\ req[s1].pc = "acquired" /\ req[s2].pc = "acquired"
                             /\ req[s1].db # req[s2].db

\* C18  Scoped release: in the pooled unit of work a handle that pool.acquire
\* returned is held until it is released, once, which happens before the task
\* completes and so before its queue slot is freed, on the success and on the
\* failure path; after a failure of the work the release was made with
\* healthy = false and the instance is closed and not in idle.
C18_ScopedRelease ==
    usePool =>
        \A s \in Subs :
            /\ req[s].acquired <= 1
            /\ req[s].released <= req[s].acquired
            /\ (req[s].acquired = 1 /\ req[s].released = 0) =>
                   /\ req[s].db \in lent
                   /\ sub[s].task = "pending"
                   /\ sub[s].released = 0
            /\ (req[s].acquired = 1 /\ req[s].pc \in {"returning", "done"}) =>
                   req[s].released = 1
            /\ (req[s].acquired = 1 /\ req[s].pc \in {"returning", "done"}
                   /\ ~req[s].fulfils) =>
                   /\ ~req[s].healthy
                   /\ req[s].db \in destroyed
                   /\ req[s].db \notin IdleDbs \cup lent

\* the work of a request failed after its acquire: the handle was released
\* unhealthy and closed, and the task is about to throw, its slot still taken
C18_Witness ==
    /\ usePool
    /\ \E s \in Subs : /\ req[s].pc = "returning"
                       /\ req[s].acquired = 1 /\ req[s].released = 1
                       /\ ~req[s].healthy /\ ~req[s].fulfils
                       /\ req[s].db \in destroyed
                       /\ sub[s].task = "pending" /\ sub[s].released = 0
                       /\ last.op = "release" /\ last.result = "unhealthy"

\* C19  No state leak between requests: an instance in the pool's idle set
\* holds no view of a request (also when a DROP VIEW statement failed).
C19_NoViewsInIdle ==
    \A i \in 1 .. Len(idle) : dbState[idle[i].db].views = {}

\* C20  Per-request credentials: the instance the statements of a request ran
\* on was made with the S3 settings of that request's s3_config, whether it
\* was created for the request or taken from the pool.
C20_RequestCredentials ==
    \A s \in Subs : req[s].ranWith \in {Absent, S3ConfigOf(s)}

\* C21  503 on overload: a /query request is answered with 503 if and only if
\* its submission was rejected with SidecarQueueSaturatedError, which happens
\* when it found MAX_CONCURRENT tasks running and MAX_QUEUE waiters; its task
\* is never called, so no instance is created or acquired for it; a request
\* whose task failed is answered with 500 and one whose task succeeded with
\* 200.
C21_OverloadStatus ==
    /\ \A s \in Subs :
          /\ req[s].status = 503 <=>
                 (sub[s].observed /\ sub[s].path = "rejected")
          /\ sub[s].path = "rejected" =>
                 /\ sub[s].result = Rejected(SidecarQueueSaturatedError)
                 /\ sub[s].invoked = 0
                 /\ req[s].pc = "none"
                 /\ req[s].db = NoDb
                 /\ req[s].acquired = 0
          /\ (sub[s].observed /\ sub[s].task = "rejected") =>
                 req[s].status = 500
          /\ (sub[s].observed /\ sub[s].task = "fulfilled") =>
                 req[s].status = 200
    /\ lastSubmit.s \in Subs =>
          (sub[lastSubmit.s].path = "rejected" <=>
              /\ lastSubmit.running >= MAX_CONCURRENT
              /\ lastSubmit.queued >= MAX_QUEUE)

\* one request was refused with 503 while a task ran and a request waited, and
\* the request whose task ran and failed was answered with 500
C21_Witness ==
    \E s1, s2 \in Subs :
        /\ sub[s1].path = "rejected" /\ req[s1].status = 503
        /\ sub[s2].task = "rejected" /\ req[s2].status = 500
        /\ factoryCalls = 1

\* the /snapshot requests between their Database.create and their response
SnapshotsExecuting ==
    {s \in Subs : snapshot[s].pc \in {"creating", "exporting", "uploading"}}

\* C22  Snapshot admission: at most SIDECAR_MAX_CONCURRENT_SNAPSHOTS /snapshot
\* executions run at the same time (the requests beyond wait, or are answered
\* with 503 when SIDECAR_MAX_SNAPSHOT_QUEUE of them wait already).
C22_SnapshotAdmission ==
    Cardinality(SnapshotsExecuting) <= MAX_CONCURRENT_SNAPSHOTS

\* the calls of a behaviour checked for progress
LiveSubs == 1 .. MaxLiveSubs

\* every task that was invoked completes, with success or failure
EveryTaskCompletes ==
    \A s \in LiveSubs : (sub[s].task = "pending") ~> (sub[s].task # "pending")

\* a task leaves the queue only by being called, and a waiting task is called
\* only in a step that releases the slot of a task that has completed
DispatchedOnCompletion ==
    \A s \in Subs :
        (\E i \in 1 .. Len(queue) : queue[i].task = s) =>
            /\ sub[s].invoked = 0
            /\ (\A i \in 1 .. Len(queue') : queue'[i].task # s) =>
                   /\ sub'[s].invoked = 1
                   /\ sub'[s].task = "pending"
                   /\ \E t \in Subs \ {s} :
                          /\ sub[t].task \in {"fulfilled", "rejected"}
                          /\ sub'[t].released = sub[t].released + 1

\* C23  Progress of waiters: if every invoked task eventually completes, every
\* queued submission is eventually dispatched and its call of
\* runWithQueryQueue eventually resolves or rejects; and a queued submission
\* leaves the queue only by being dispatched, in a step that releases the
\* slot of a task that has completed.
C23_WaitersProgress ==
    /\ [][DispatchedOnCompletion]_vars
    /\ EveryTaskCompletes =>
           \A s \in LiveSubs :
               (sub[s].path = "queued") ~>
                   (sub[s].invoked = 1 /\ Settled(s) /\ sub[s].observed)

\* a call that waited was dispatched when the running task failed, and its
\* caller has seen its result
C23_Witness ==
    \E s, t \in Subs :
        /\ sub[t].path = "immediate" /\ sub[t].task = "rejected"
        /\ sub[s].path = "queued"
        /\ sub[s].invoked = 1 /\ sub[s].observed
        /\ sub[s].result.kind = "ok"

\* C24  Work-conserving dispatch, no overtaking: between any two synchronous
\* segments a non-empty queue implies running = MAX_CONCURRENT, and a
\* submission that took the immediate path found the queue empty.
C24_WorkConserving ==
    /\ queue # << >> => running = MAX_CONCURRENT
    /\ \A s \in Subs :
          (lastSubmit.s = s /\ sub[s].path = "immediate") =>
              /\ lastSubmit.queued = 0
              /\ lastSubmit.running < MAX_CONCURRENT

\* a task completed while two calls waited: the first of them was dispatched
\* into the freed slot and the other one still waits with every slot taken
C24_Witness ==
    /\ Len(queue) = 1
    /\ Len(dispLog) = 1
    /\ running = MAX_CONCURRENT
    /\ \E s \in Subs : sub[s].released = 1

\* C25  Slot released before the result is observable: when the caller of
\* runWithQueryQueue observes the result or the error of a call whose task was
\* invoked, `running` has been decremented for that task (and the next
\* waiter dispatched).
C25_ReleasedBeforeObserved ==
    \A s \in Subs :
        (sub[s].observed /\ sub[s].invoked > 0) => sub[s].released = 1

\* the place of instance d in the sequence q of idle instances
IdlePos(q, d) == CHOOSE i \in 1 .. Len(q) : q[i].db = d

\* idle is kept in the order of placement: an instance placed in idle is put
\* at its end, and the instances that stay keep their order
IdleInPlacementOrder ==
    \A j \in 1 .. Len(idle') :
        /\ idle'[j].db \notin IdleDbs => j = Len(idle')
        /\ \A i \in 1 .. j - 1 :
               (idle'[i].db \in IdleDbs /\ idle'[j].db \in IdleDbs) =>
                   IdlePos(idle, idle'[i].db) < IdlePos(idle, idle'[j].db)

\* the idle instances that are not expired, and the last of them in idle
UsableIdle == IdleDbs \ ExpiredIdle
NewestUsable ==
    idle[CHOOSE i \in 1 .. Len(idle) :
             /\ idle[i].db \in UsableIdle
             /\ \A j \in i + 1 .. Len(idle) : idle[j].db \in ExpiredIdle]

\* C26  LIFO reuse: when idle holds an instance that is not expired, an
\* acquire on an open pool returns the one of them that was placed in idle
\* most recently, keeps the instances placed before it, and does not call the
\* factory.
C26_LifoReuse ==
    [][/\ IdleInPlacementOrder
       /\ (Acquire /\ ~closed /\ UsableIdle # {}) =>
             /\ last'.result = "handle"
             /\ last'.db = NewestUsable.db
             /\ lent' = lent \cup {NewestUsable.db}
             /\ creationTimes'[last'.db] = NewestUsable.createdAt
             /\ idle' = SubSeq(idle, 1, IdlePos(idle, NewestUsable.db) - 1)
             /\ factoryCalls' = factoryCalls
             /\ creating' = creating
             /\ totalCreated' = totalCreated
      ]_vars

\* idle held instance 1 (released) under instance 2 (placed later by the
\* warmup); the acquire just made returned 2 and left 1
C26_Witness ==
    /\ last.op = "acquire" /\ last.result = "handle" /\ last.db = 2
    /\ last.evicted = {}
    /\ lent = {2}
    /\ Len(idle) = 1 /\ idle[1].db = 1

\* idle after the push of a release of db, before the trim
IdleAfterPush(db) ==
    Append(idle, PooledInstance(db, IF creationTimes[db] # Absent
                                    THEN creationTimes[db] ELSE now))
\* the number of instances the trim takes from a sequence q
Excess(q) == Max(0, Len(q) - minSize)

\* C27  Trim after healthy release: a healthy release on an open pool appends
\* the instance to idle and then cuts idle to at most minSize instances by
\* closing them from the least recently placed end; the released instance is
\* closed only when minSize = 0; totalRecycled counts every instance closed.
C27_TrimAfterRelease ==
    [][\A db \in Dbs :
          (Release(db, TRUE) /\ ~closed) =>
              LET q == IdleAfterPush(db)
                  k == Excess(q)
              IN /\ idle' = SubSeq(q, k + 1, Len(q))
                 /\ Len(idle') <= minSize
                 /\ destroyed' = destroyed \cup {q[i].db : i \in 1 .. k}
                 /\ totalRecycled' = totalRecycled + k
                 /\ last'.result = "healthy"
                 /\ minSize > 0 => /\ idle'[Len(idle')].db = db
                                   /\ db \notin destroyed'
                 /\ db \in destroyed' => minSize = 0
                 /\ activeCount' = activeCount - 1
      ]_vars

\* minSize = 1: handle 2 was released healthy while idle held instance 1; the
\* trim closed 1 and kept 2
C27_Witness ==
    /\ minSize = 1 /\ ~closed
    /\ last.op = "release" /\ last.result = "healthy" /\ last.db = 2
    /\ Len(idle) = 1 /\ idle[1].db = 2
    /\ destroyed = {1} /\ totalRecycled = 1

\* C28  Idle bound: on a pool whose warmup is called at most once, idle never
\* holds more than minSize instances, whatever the interleaving of warmup,
\* acquire and release.
C28_IdleBound == Len(idle) <= minSize

\* C29  Release on a closed pool: after drain, a release of a handle that is
\* still out decrements activeCount by one and closes the instance, whether
\* healthy is true or false; the instance is not put in idle, and
\* totalRecycled counts it only when healthy is false.
C29_ReleaseOnClosed ==
    [][\A db \in Dbs, healthy \in BOOLEAN :
          (Release(db, healthy) /\ closed) =>
              /\ activeCount' = activeCount - 1
              /\ lent' = lent \ {db}
              /\ db \notin destroyed
              /\ destroyed' = destroyed \cup {db}
              /\ idle' = idle
              /\ db \notin IdleDbs'
              /\ totalRecycled' = totalRecycled + (IF healthy THEN 0 ELSE 1)
              /\ closed'
      ]_vars

\* handle 1 was out when the pool was drained; its healthy release has just
\* closed it
C29_Witness ==
    /\ closed
    /\ last.op = "release" /\ last.result = "healthy" /\ last.db = 1
    /\ destroyed = {1} /\ idle = << >> /\ lent = {}
    /\ activeCount = 0 /\ totalRecycled = 0

\* the expired instances at the end of idle: those with no instance that is
\* not expired placed after them
ExpiredTop ==
    { idle[i].db : i \in { k \in 1 .. Len(idle) :
                              \A j \in k .. Len(idle) : idle[j].db \in ExpiredIdle } }

\* C30  Expiry loop: an acquire on an open pool closes every expired instance
\* it pops from idle, counting each in totalRecycled, and pops until it finds
\* an instance that is not expired, which it returns, or idle is empty; it
\* calls the factory only when it has emptied idle, and then only when
\* activeCount < maxSize.
C30_ExpiryLoop ==
    [][(Acquire /\ ~closed) =>
          /\ last'.evicted = ExpiredTop
          /\ ExpiredTop \cap destroyed = {}
          /\ destroyed' = destroyed \cup ExpiredTop
          /\ totalRecycled' = totalRecycled + Cardinality(ExpiredTop)
          /\ Len(idle') = Len(idle) - Cardinality(ExpiredTop)
                              - (IF UsableIdle # {} THEN 1 ELSE 0)
          /\ idle' = SubSeq(idle, 1, Len(idle'))
          /\ UsableIdle # {} => last'.result = "handle"
          /\ factoryCalls' # factoryCalls =>
                 /\ factoryCalls' = factoryCalls + 1
                 /\ UsableIdle = {}
                 /\ idle' = << >>
                 /\ activeCount < maxSize
                 /\ last'.result = "creating"
          /\ (UsableIdle = {} /\ activeCount >= maxSize) =>
                 /\ factoryCalls' = factoryCalls
                 /\ last'.result = "exhausted"
      ]_vars

\* maxSize = 1 and handle 1 is out; idle held instance 2, expired: the acquire
\* just made closed it, then failed without a call of the factory
C30_Witness ==
    /\ ~closed /\ maxSize = 1
    /\ last.op = "acquire" /\ last.result = "exhausted"
    /\ last.evicted = {2}
    /\ lent = {1} /\ idle = << >>
    /\ 2 \in destroyed /\ totalRecycled = 1 /\ factoryCalls = 2

\* the creations of the warmup that succeeded, and those that failed, by
\* their place in the order in which they settled
WarmupSucceeded == {i \in 1 .. Len(warmup.outcomes) : warmup.outcomes[i]}
WarmupFailed == {i \in 1 .. Len(warmup.outcomes) : ~warmup.outcomes[i]}

\* C31  Warmup partial failure: when one of warmup's factory calls fails,
\* warmup fails with the first of the creation errors; every creation that
\* succeeds, before or after that, is counted once in totalCreated and placed
\* once in idle, and a failed one changes neither, so that on a pool on which
\* only warmup has called the factory and nothing was handed out or closed,
\* idle.length and totalCreated are the number of creations that succeeded.
C31_WarmupPartialFailure ==
    /\ [](/\ warmup.state = "failed" <=> WarmupFailed # {}
          /\ warmup.state = "failed" =>
                 /\ warmup.error \in WarmupFailed
                 /\ \A i \in WarmupFailed : warmup.error <= i
          /\ ( /\ warmup.state # "none" /\ factoryCalls = minSize
               /\ ~closed /\ lent = {} /\ destroyed = {} /\ creating = 0 ) =>
                 /\ Len(idle) = Cardinality(WarmupSucceeded)
                 /\ Cardinality(IdleDbs) = Cardinality(WarmupSucceeded)
                 /\ totalCreated = Cardinality(WarmupSucceeded)
                 /\ activeCount = 0)
    /\ [][/\ WarmupCreated =>
                /\ totalCreated' = totalCreated + 1
                /\ last'.db \notin IdleDbs \cup lent \cup destroyed
                /\ idle' = Append(idle, PooledInstance(last'.db, now))
          /\ WarmupCreateFails =>
                /\ totalCreated' = totalCreated
                /\ idle' = idle
                /\ dbCount' = dbCount
         ]_vars

\* minSize = 2: the first creation to settle failed and warmup was rejected
\* with its error; the other one succeeded afterwards and is in idle
C31_Witness ==
    /\ minSize = 2 /\ ~closed
    /\ warmup.state = "failed" /\ warmup.inFlight = 0
    /\ warmup.outcomes = << FALSE, TRUE >> /\ warmup.error = 1
    /\ Len(idle) = 1 /\ totalCreated = 1 /\ activeCount = 0
    /\ last.op = "warmupCreated" /\ last.result = "idle"

\* an acquire that returns a handle or goes on to create one
AcquireGrants == Acquire /\ last'.result \in {"handle", "creating"}

\* C32  Factory failure in acquire: when the factory fails for an acquire, the
\* acquire fails with the factory's error and changes no field of the pool:
\* activeCount, totalCreated, idle and the handles out are as they were and
\* the pool is as open as it was; on an open pool with room left an acquire
\* made afterwards is granted.
C32_FactoryFailureInAcquire ==
    /\ [][AcquireCreateFails =>
              /\ last'.op = "acquireResumed"
              /\ last'.result = "factoryError"
              /\ last'.db = NoDb
              /\ creating' = creating - 1
              /\ UNCHANGED << minSize, maxSize, recycleTTLMs, idle, activeCount,
                              creationTimes, totalCreated, totalRecycled,
                              closed, dbCount, lent, destroyed >>
         ]_vars
    /\ []((/\ last.op = "acquireResumed" /\ last.result = "factoryError"
           /\ ~closed /\ activeCount < maxSize
           /\ factoryCalls < MaxFactoryCalls) => ENABLED AcquireGrants)

\* handle 1 is out of a pool of maxSize = 2; the creation of a second acquire
\* has just failed and the counters are those of one instance
C32_Witness ==
    /\ ~closed /\ maxSize = 2 /\ warmup.state = "none"
    /\ last.op = "acquireResumed" /\ last.result = "factoryError"
    /\ lent = {1} /\ activeCount = 1 /\ totalCreated = 1
    /\ creating = 0 /\ factoryCalls = 2

\* the requests whose statements ran and succeeded (healthy stayed true)
SqlSucceeded ==
    {s \in Subs : /\ req[s].pc \in {"dropping", "closing", "returning", "done"}
                  /\ req[s].ranWith # Absent
                  /\ req[s].healthy}

\* C33  Teardown never fails a successful query: a request whose SQL succeeded
\* has a task that fulfils and is answered with 200, whatever happens when
\* its views are dropped and its instance is released or closed, in pooled
\* and in non-pooled mode.
C33_TeardownNeverFails ==
    \A s \in SqlSucceeded :
        /\ req[s].pc \in {"returning", "done"} => req[s].fulfils
        /\ sub[s].task # "rejected"
        /\ req[s].status \in {NoStatus, 200}

\* C34  Pool configuration: the pool initPool constructs has
\* minSize <= maxSize, whatever DUCKDB_POOL_SIZE and DUCKDB_POOL_MAX are.
C34_PoolConfiguration == usePool => minSize <= maxSize

\* the text that writes zero
ZeroText == << "0" >>

\* C35  Zero queue depth: with the maximum queue depth configured as 0
\* nothing is ever queued, and a submission that finds every slot taken is
\* rejected with SidecarQueueSaturatedError.
C35_ZeroQueueDepth ==
    env.SIDECAR_MAX_QUERY_QUEUE = ZeroText =>
        /\ queue = << >>
        /\ \A s \in Subs : sub[s].path # "queued"

\* the calls whose task is called, and whose slot is released, in a step
NewlyInvoked == {s \in Subs : sub'[s].invoked > sub[s].invoked}
NewlyReleased == {s \in Subs : sub'[s].released > sub[s].released}

\* C36  Queue counter accuracy: `running` is the number of tasks that were
\* invoked and whose slot is not released; it is never negative; a task is
\* invoked at most once, with one increment, and its slot is released at most
\* once, after its completion, with one decrement; with no slot held and an
\* empty queue, and so whenever no task is pending, nothing waits and no
\* promise reaction is left to run, running = 0.
C36_QueueCounterAccuracy ==
    /\ [](/\ running = Cardinality(HoldingSlot)
          /\ running >= 0
          /\ \A s \in Subs :
                 /\ sub[s].invoked <= 1
                 /\ sub[s].released <= sub[s].invoked
                 /\ sub[s].released = 1 => sub[s].task # "pending"
                 /\ sub[s].path = "rejected" => sub[s].invoked = 0
          /\ (HoldingSlot = {} /\ queue = << >>) => running = 0
          /\ (InFlight = {} /\ queue = << >> /\ microtasks = << >>) =>
                 running = 0)
    /\ [][/\ running' = running + Cardinality(NewlyInvoked)
                                 - Cardinality(NewlyReleased)
          /\ \A s \in NewlyInvoked : sub'[s].invoked = sub[s].invoked + 1
          /\ \A s \in NewlyReleased : sub'[s].released = sub[s].released + 1
         ]_vars

\* three calls were made with one slot; all three tasks ran, one after the
\* other, every slot was released and the counter is back at 0
C36_Witness ==
    /\ MAX_CONCURRENT = 1
    /\ running = 0 /\ queue = << >> /\ microtasks = << >>
    /\ Cardinality({s \in Subs : sub[s].invoked = 1 /\ sub[s].released = 1}) = 3
    /\ \E s \in Subs : sub[s].path = "queued" /\ sub[s].task = "rejected"

\* C37  Pool counter accuracy: activeCount is never negative and is the
\* number of handles that are out, also when release is called twice for one
\* checkout or for an instance the pool never lent.
C37_PoolCounterAccuracy ==
    /\ activeCount >= 0
    /\ activeCount = Cardinality(lent)

\* C38  Age is preserved across recycling: the createdAt the pool holds for an
\* instance, in idle and while it is lent, is the time the factory returned
\* it; a healthy release puts the handle in idle with that time, not with the
\* time of the release, an acquire that reuses it checks and records that
\* time, and no step changes the time an instance was made.
C38_AgePreserved ==
    /\ [](/\ \A i \in 1 .. Len(idle) : idle[i].createdAt = born[idle[i].db]
          /\ \A d \in lent : creationTimes[d] = born[d])
    /\ [][/\ \A d \in Dbs : born[d] # Absent => born'[d] = born[d]
          /\ \A d \in lent \ lent' :
                 \A i \in 1 .. Len(idle') :
                     idle'[i].db = d => /\ idle'[i].createdAt = born[d]
                                        /\ now - idle'[i].createdAt = Age(d)
          /\ \A d \in (lent' \ lent) \cap IdleDbs :
                 /\ creationTimes'[d] = born[d]
                 /\ Age(d) <= recycleTTLMs
         ]_vars

\* no warmup was made, so the instance the factory returned at time 0 came to
\* idle by a healthy release; the acquire just made, at time 1, has reused it
\* with createdAt 0
C38_Witness ==
    /\ warmup.state = "none" /\ now = 1 /\ ~closed
    /\ last.op = "acquire" /\ last.result = "handle"
    /\ born[last.db] = 0
    /\ creationTimes[last.db] = 0
    /\ last.db \in lent

\* C39  A closed pool stays empty and lends nothing: once drain has been
\* called idle is empty in every state, no step adds an instance to idle, and
\* no step gives a caller a handle, the steps that finish an instance creation
\* of a warmup or of an acquire started before the drain included.
C39_ClosedPoolStaysEmpty ==
    /\ [](closed => idle = << >>)
    /\ [][closed =>
            /\ Len(idle') <= Len(idle)
            /\ lent' \subseteq lent
            /\ last'.result # "handle"
         ]_vars

\* C40  Stats conservation: on an open pool, whenever no acquire and no warmup
\* is suspended in an instance creation, getStats reports totalCreated -
\* totalRecycled = idle + active and total = idle + active; no step makes
\* totalCreated or totalRecycled smaller.
NoCreationInFlight == creating = 0 /\ warmup.inFlight = 0
C40_StatsConservation ==
    /\ []((~closed /\ NoCreationInFlight) =>
            /\ getStats.totalCreated - getStats.totalRecycled =
                   getStats.idle + getStats.active
            /\ getStats.total = getStats.idle + getStats.active)
    /\ [][/\ totalCreated' >= totalCreated
          /\ totalRecycled' >= totalRecycled]_vars

\* two instances were made, one by the warmup and one by an acquire; one has
\* been closed and counted, the other is idle, and nothing is in flight
C40_Witness ==
    /\ ~closed /\ NoCreationInFlight
    /\ warmup.state = "done"
    /\ getStats.totalCreated = 2 /\ getStats.totalRecycled = 1
    /\ getStats.idle = 1 /\ getStats.active = 0
    /\ Cardinality(destroyed) = 1

====
